---------------------------- MODULE Spec2Model ----------------------------
(***************************************************************************)
(* Skill agent of Implementing_skills_using_langchain: the run_agent loop  *)
(* (agent / execute_tools nodes of the LangGraph state graph), the tool    *)
(* catalog with reload_tools, skill creation, and the list-skills fast     *)
(* path.  Text is modelled as sequences of one-character strings so that   *)
(* lower(), strip(), title(), replace() and substring tests are computed   *)
(* and not assumed.                                                        *)
(***************************************************************************)
EXTENDS Integers, Sequences, FiniteSets, TLC

(***************************************************************************)
(* Text literals of the source and the input texts of the model            *)
(***************************************************************************)

_LIST_SKILLS_PATTERNS ==
    << <<"w", "h", "a", "t", " ", "s", "k", "i", "l", "l", "s">>,
       <<"w", "h", "i", "c", "h", " ", "s", "k", "i", "l", "l", "s">>,
       <<"l", "i", "s", "t", " ", "s", "k", "i", "l", "l", "s">>,
       <<"a", "v", "a", "i", "l", "a", "b", "l", "e", " ", "s", "k", "i", "l", "l", "s">>,
       <<"w", "h", "a", "t", " ", "c", "a", "n", " ", "y", "o", "u", " ", "d", "o">>,
       <<"w", "h", "a", "t", " ", "c", "a", "p", "a", "b", "i", "l", "i", "t", "i", "e", "s">>,
       <<"w", "h", "a", "t", " ", "t", "o", "o", "l", "s">>,
       <<"s", "h", "o", "w", " ", "s", "k", "i", "l", "l", "s">>,
       <<"s", "k", "i", "l", "l", "s", " ", "d", "o", " ", "y", "o", "u", " ", "h", "a", "v", "e">>,
       <<"s", "k", "i", "l", "l", "s", " ", "a", "v", "a", "i", "l", "a", "b", "l", "e">>,
       <<"h", "e", "l", "p", " ", "m", "e">> >>

n_business_url_hybrid_search_tool ==
    <<"b", "u", "s", "i", "n", "e", "s", "s", "_", "u", "r", "l", "_", "h", "y", "b", "r", "i",
      "d", "_", "s", "e", "a", "r", "c", "h", "_", "t", "o", "o", "l">>

n_web_page_scraper_tool ==
    <<"w", "e", "b", "_", "p", "a", "g", "e", "_", "s", "c", "r", "a", "p", "e", "r", "_", "t",
      "o", "o", "l">>

n_extract_youtube_transcript ==
    <<"e", "x", "t", "r", "a", "c", "t", "_", "y", "o", "u", "t", "u", "b", "e", "_", "t", "r",
      "a", "n", "s", "c", "r", "i", "p", "t">>

n_extract_youtube_transcript_with_timestamps ==
    <<"e", "x", "t", "r", "a", "c", "t", "_", "y", "o", "u", "t", "u", "b", "e", "_", "t", "r",
      "a", "n", "s", "c", "r", "i", "p", "t", "_", "w", "i", "t", "h", "_", "t", "i", "m", "e",
      "s", "t", "a", "m", "p", "s">>

n_list_available_skills ==
    <<"l", "i", "s", "t", "_", "a", "v", "a", "i", "l", "a", "b", "l", "e", "_", "s", "k", "i",
      "l", "l", "s">>

n_read_skill_instructions ==
    <<"r", "e", "a", "d", "_", "s", "k", "i", "l", "l", "_", "i", "n", "s", "t", "r", "u", "c",
      "t", "i", "o", "n", "s">>

n_pdf_reader_tool ==
    <<"p", "d", "f", "_", "r", "e", "a", "d", "e", "r", "_", "t", "o", "o", "l">>

s_medium_blog_generator ==
    <<"m", "e", "d", "i", "u", "m", "-", "b", "l", "o", "g", "-", "g", "e", "n", "e", "r", "a",
      "t", "o", "r">>

s_youtube_transcript ==
    <<"y", "o", "u", "t", "u", "b", "e", "-", "t", "r", "a", "n", "s", "c", "r", "i", "p", "t">>

s_youtube_tech_summarizer ==
    <<"y", "o", "u", "t", "u", "b", "e", "-", "t", "e", "c", "h", "-", "s", "u", "m", "m", "a",
      "r", "i", "z", "e", "r">>

s_web_page_scraper ==
    <<"w", "e", "b", "-", "p", "a", "g", "e", "-", "s", "c", "r", "a", "p", "e", "r">>

s_pdf_reader == <<"p", "d", "f", "-", "r", "e", "a", "d", "e", "r">>

s_no_such_skill == <<"n", "o", "-", "s", "u", "c", "h", "-", "s", "k", "i", "l", "l">>

d_medium_blog_generator ==
    <<"M", "e", "d", "i", "u", "m", " ", "B", "l", "o", "g", " ", "G", "e", "n", "e", "r", "a",
      "t", "o", "r">>

d_youtube_transcript ==
    <<"Y", "o", "u", "T", "u", "b", "e", " ", "T", "r", "a", "n", "s", "c", "r", "i", "p", "t",
      " ", "&", " ", "S", "u", "m", "m", "a", "r", "y">>

d_youtube_tech_summarizer ==
    <<"Y", "o", "u", "T", "u", "b", "e", " ", "T", "e", "c", "h", " ", "S", "u", "m", "m", "a",
      "r", "i", "z", "e", "r">>

t_no_skills_loaded ==
    <<"N", "o", " ", "s", "k", "i", "l", "l", "s", " ", "a", "r", "e", " ", "c", "u", "r", "r",
      "e", "n", "t", "l", "y", " ", "l", "o", "a", "d", "e", "d", ".">>

\* "U+1F9E0" stands for the single code point of the heading's emoji
t_listing_head ==
    <<"#", "#", " ", "U+1F9E0", " ", "A", "v", "a", "i", "l", "a", "b", "l", "e", " ", "S", "k", "i",
      "l", "l", "s", "\n">>

t_listing_rule == <<"-", "-", "-">>

t_listing_foot ==
    <<"_", "S", "i", "m", "p", "l", "y", " ", "d", "e", "s", "c", "r", "i", "b", "e", " ", "w",
      "h", "a", "t", " ", "y", "o", "u", " ", "n", "e", "e", "d", " ", "a", "n", "d", " ", "I",
      " ", "w", "i", "l", "l", " ", "a", "u", "t", "o", "m", "a", "t", "i", "c", "a", "l", "l",
      "y", " ", "u", "s", "e", " ", "t", "h", "e", " ", "r", "i", "g", "h", "t", " ", "s", "k",
      "i", "l", "l", ".", "_">>

t_tool_suffix == <<"_", "t", "o", "o", "l">>

t_unknown_tool_open ==
    <<"{", "\"", "e", "r", "r", "o", "r", "\"", ":", " ", "\"", "U", "n", "k", "n", "o", "w",
      "n", " ", "t", "o", "o", "l", ":", " ">>

t_error_open == <<"{", "\"", "e", "r", "r", "o", "r", "\"", ":", " ", "\"">>

t_error_tool == <<"\"", ",", " ", "\"", "t", "o", "o", "l", "\"", ":", " ", "\"">>

t_json_close == <<"\"", "}">>

t_note_open ==
    <<"{", "\"", "n", "o", "t", "e", "\"", ":", " ", "\"", "A", "l", "r", "e", "a", "d", "y",
      " ", "c", "a", "l", "l", "e", "d", " ">>

t_note_close ==
    <<" ", "\\", "u", "2", "0", "1", "4", " ", "u", "s", "i", "n", "g", " ", "p", "r", "e",
      "v", "i", "o", "u", "s", " ", "r", "e", "s", "u", "l", "t", ".", "\"", "}">>

t_not_found_open == <<"S", "k", "i", "l", "l", " ", "'">>

t_not_found_mid ==
    <<"'", " ", "n", "o", "t", " ", "f", "o", "u", "n", "d", ".", " ", "A", "v", "a", "i", "l",
      "a", "b", "l", "e", ":", " ">>

q_what_skills ==
    <<"w", "h", "a", "t", " ", "s", "k", "i", "l", "l", "s", " ", "d", "o", " ", "y", "o", "u",
      " ", "h", "a", "v", "e", " ", "a", "v", "a", "i", "l", "a", "b", "l", "e", "?">>

q_What_Skills ==
    <<"W", "h", "a", "t", " ", "S", "k", "i", "l", "l", "s", " ", "d", "o", " ", "y", "o", "u",
      " ", "h", "a", "v", "e", " ", "a", "v", "a", "i", "l", "a", "b", "l", "e", "?">>

q_HELP_ME == <<" ", "H", "E", "L", "P", " ", "M", "E", " ">>

q_help_summarise ==
    <<"P", "l", "e", "a", "s", "e", " ", "h", "e", "l", "p", " ", "m", "e", " ", "r", "e", "a",
      "d", " ", "r", "e", "p", "o", "r", "t", ".", "p", "d", "f">>

q_help_2sp == <<"h", "e", "l", "p", " ", " ", "m", "e">>

q_transcript ==
    <<"G", "e", "t", " ", "t", "h", "e", " ", "t", "r", "a", "n", "s", "c", "r", "i", "p", "t",
      " ", "f", "o", "r", " ", "v", "1">>

desc_yt ==
    <<"E", "x", "t", "r", "a", "c", "t", " ", "t", "r", "a", "n", "s", "c", "r", "i", "p", "t",
      "s", ".", " ", "U", "s", "e", " ", "f", "o", "r", " ", "Y", "o", "u", "T", "u", "b", "e",
      " ", "U", "R", "L", "s", ".">>

desc_web ==
    <<"S", "c", "r", "a", "p", "e", "s", " ", "w", "e", "b", " ", "p", "a", "g", "e", "s", ".">>

desc_pdf ==
    <<"R", "e", "a", "d", "s", " ", "P", "D", "F", " ", "f", "i", "l", "e", "s", ".", " ", "U",
      "s", "e", " ", "f", "o", "r", " ", "r", "e", "p", "o", "r", "t", "s">>

body_yt == <<"1", ".", " ", "c", "a", "l", "l", " ", "t", "h", "e", " ", "t", "o", "o", "l">>

body_web == <<"1", ".", " ", "s", "c", "r", "a", "p", "e">>

body_pdf == <<"1", ".", " ", "r", "e", "a", "d">>

t_final_answer ==
    <<" ", "H", "e", "r", "e", " ", "i", "s", " ", "t", "h", "e", " ", "a", "n", "s", "w", "e",
      "r", ".", " ", "\n">>

t_validation_error ==
    <<"v", "a", "l", "i", "d", "a", "t", "i", "o", "n", " ", "e", "r", "r", "o", "r">>

\* the keys and texts of skill_matcher.py and answers of the decision model
k_needs_skill == <<"n", "e", "e", "d", "s", "_", "s", "k", "i", "l", "l">>

k_skill_name == <<"s", "k", "i", "l", "l", "_", "n", "a", "m", "e">>

k_confidence == <<"c", "o", "n", "f", "i", "d", "e", "n", "c", "e">>

k_reasoning == <<"r", "e", "a", "s", "o", "n", "i", "n", "g">>

\* "U+0060" is the one character GRAVE ACCENT
t_fence == <<"U+0060", "U+0060", "U+0060">>

t_json == <<"j", "s", "o", "n">>

t_keyword_open ==
    <<"K", "e", "y", "w", "o", "r", "d", " ", "f", "a", "l", "l", "b", "a", "c", "k", " ", "m",
      "a", "t", "c", "h", " ", "(">>

t_keyword_close == <<" ", "k", "e", "y", "w", "o", "r", "d", "s", ")">>

t_parse_error ==
    <<"J", "S", "O", "N", " ", "p", "a", "r", "s", "e", " ", "e", "r", "r", "o", "r", ":", " ">>

t_matcher_no_skills ==
    <<"N", "o", " ", "s", "k", "i", "l", "l", "s", " ", "a", "v", "a", "i", "l", "a", "b", "l",
      "e">>

q_extract_youtube ==
    <<"E", "x", "t", "r", "a", "c", "t", " ", "t", "h", "i", "s", " ", "Y", "o", "u", "T", "u",
      "b", "e", " ", "v", "i", "d", "e", "o">>

q_summarizes_extract ==
    <<"S", "u", "m", "m", "a", "r", "i", "z", "e", "s", "?", " ", "E", "x", "t", "r", "a", "c",
      "t", " ", "Y", "o", "u", "T", "u", "b", "e", " ", "t", "r", "a", "n", "s", "c", "r", "i",
      "p", "t", "s", ".", " ", "T", "h", "a", "n", "k", "s">>

a_exact ==
    <<"{", "\"", "n", "e", "e", "d", "s", "_", "s", "k", "i", "l", "l", "\"", ":", " ", "t",
      "r", "u", "e", ",", " ", "\"", "s", "k", "i", "l", "l", "_", "n", "a", "m", "e", "\"",
      ":", " ", "\"", "y", "o", "u", "t", "u", "b", "e", "-", "t", "r", "a", "n", "s", "c",
      "r", "i", "p", "t", "\"", ",", " ", "\"", "c", "o", "n", "f", "i", "d", "e", "n", "c",
      "e", "\"", ":", " ", "0", ".", "9", ",", " ", "\"", "r", "e", "a", "s", "o", "n", "i",
      "n", "g", "\"", ":", " ", "\"", "o", "k", "\"", "}">>

a_underscore ==
    <<"{", "\"", "n", "e", "e", "d", "s", "_", "s", "k", "i", "l", "l", "\"", ":", " ", "t",
      "r", "u", "e", ",", " ", "\"", "s", "k", "i", "l", "l", "_", "n", "a", "m", "e", "\"",
      ":", " ", "\"", "y", "o", "u", "t", "u", "b", "e", "_", "t", "r", "a", "n", "s", "c",
      "r", "i", "p", "t", "\"", ",", " ", "\"", "c", "o", "n", "f", "i", "d", "e", "n", "c",
      "e", "\"", ":", " ", "0", ".", "9", ",", " ", "\"", "r", "e", "a", "s", "o", "n", "i",
      "n", "g", "\"", ":", " ", "\"", "o", "k", "\"", "}">>

a_youtube ==
    <<"{", "\"", "n", "e", "e", "d", "s", "_", "s", "k", "i", "l", "l", "\"", ":", " ", "t",
      "r", "u", "e", ",", " ", "\"", "s", "k", "i", "l", "l", "_", "n", "a", "m", "e", "\"",
      ":", " ", "\"", "Y", "o", "u", "T", "u", "b", "e", "\"", ",", " ", "\"", "c", "o", "n",
      "f", "i", "d", "e", "n", "c", "e", "\"", ":", " ", "0", ".", "9", ",", " ", "\"", "r",
      "e", "a", "s", "o", "n", "i", "n", "g", "\"", ":", " ", "\"", "o", "k", "\"", "}">>

a_longer ==
    <<"{", "\"", "n", "e", "e", "d", "s", "_", "s", "k", "i", "l", "l", "\"", ":", " ", "t",
      "r", "u", "e", ",", " ", "\"", "s", "k", "i", "l", "l", "_", "n", "a", "m", "e", "\"",
      ":", " ", "\"", "t", "h", "e", " ", "y", "o", "u", "t", "u", "b", "e", "-", "t", "r",
      "a", "n", "s", "c", "r", "i", "p", "t", " ", "s", "k", "i", "l", "l", "\"", ",", " ",
      "\"", "c", "o", "n", "f", "i", "d", "e", "n", "c", "e", "\"", ":", " ", "0", ".", "9",
      ",", " ", "\"", "r", "e", "a", "s", "o", "n", "i", "n", "g", "\"", ":", " ", "\"", "o",
      "k", "\"", "}">>

a_unknown ==
    <<"{", "\"", "n", "e", "e", "d", "s", "_", "s", "k", "i", "l", "l", "\"", ":", " ", "t",
      "r", "u", "e", ",", " ", "\"", "s", "k", "i", "l", "l", "_", "n", "a", "m", "e", "\"",
      ":", " ", "\"", "p", "d", "f", "-", "r", "e", "a", "d", "e", "r", "\"", ",", " ", "\"",
      "c", "o", "n", "f", "i", "d", "e", "n", "c", "e", "\"", ":", " ", "0", ".", "9", ",",
      " ", "\"", "r", "e", "a", "s", "o", "n", "i", "n", "g", "\"", ":", " ", "\"", "o", "k",
      "\"", "}">>

a_no_skill ==
    <<"{", "\"", "n", "e", "e", "d", "s", "_", "s", "k", "i", "l", "l", "\"", ":", " ", "f",
      "a", "l", "s", "e", ",", " ", "\"", "s", "k", "i", "l", "l", "_", "n", "a", "m", "e",
      "\"", ":", " ", "n", "u", "l", "l", ",", " ", "\"", "c", "o", "n", "f", "i", "d", "e",
      "n", "c", "e", "\"", ":", " ", "0", ".", "2", ",", " ", "\"", "r", "e", "a", "s", "o",
      "n", "i", "n", "g", "\"", ":", " ", "\"", "o", "k", "\"", "}">>

a_fenced ==
    <<"U+0060", "U+0060", "U+0060", "j", "s", "o", "n", "\n", "{", "\"", "n", "e", "e", "d", "s", "_", "s",
      "k", "i", "l", "l", "\"", ":", " ", "t", "r", "u", "e", ",", " ", "\"", "s", "k", "i",
      "l", "l", "_", "n", "a", "m", "e", "\"", ":", " ", "\"", "y", "o", "u", "t", "u", "b",
      "e", "-", "t", "r", "a", "n", "s", "c", "r", "i", "p", "t", "\"", ",", " ", "\"", "c",
      "o", "n", "f", "i", "d", "e", "n", "c", "e", "\"", ":", " ", "0", ".", "9", ",", " ",
      "\"", "r", "e", "a", "s", "o", "n", "i", "n", "g", "\"", ":", " ", "\"", "o", "k", "\"",
      "}", "\n", "U+0060", "U+0060", "U+0060">>

a_prose ==
    <<"U", "s", "e", " ", "y", "o", "u", "t", "u", "b", "e", "-", "t", "r", "a", "n", "s", "c",
      "r", "i", "p", "t", ".">>

a_list ==
    <<"[", "\"", "y", "o", "u", "t", "u", "b", "e", "-", "t", "r", "a", "n", "s", "c", "r",
      "i", "p", "t", "\"", ",", " ", "0", ".", "9", "]">>

a_string ==
    <<"\"", "y", "o", "u", "t", "u", "b", "e", "-", "t", "r", "a", "n", "s", "c", "r", "i",
      "p", "t", "\"">>

a_over ==
    <<"{", "\"", "n", "e", "e", "d", "s", "_", "s", "k", "i", "l", "l", "\"", ":", " ", "t",
      "r", "u", "e", ",", " ", "\"", "s", "k", "i", "l", "l", "_", "n", "a", "m", "e", "\"",
      ":", " ", "\"", "y", "o", "u", "t", "u", "b", "e", "-", "t", "r", "a", "n", "s", "c",
      "r", "i", "p", "t", "\"", ",", " ", "\"", "c", "o", "n", "f", "i", "d", "e", "n", "c",
      "e", "\"", ":", " ", "1", ".", "5", ",", " ", "\"", "r", "e", "a", "s", "o", "n", "i",
      "n", "g", "\"", ":", " ", "\"", "o", "k", "\"", "}">>

a_negative ==
    <<"{", "\"", "n", "e", "e", "d", "s", "_", "s", "k", "i", "l", "l", "\"", ":", " ", "t",
      "r", "u", "e", ",", " ", "\"", "s", "k", "i", "l", "l", "_", "n", "a", "m", "e", "\"",
      ":", " ", "\"", "y", "o", "u", "t", "u", "b", "e", "-", "t", "r", "a", "n", "s", "c",
      "r", "i", "p", "t", "\"", ",", " ", "\"", "c", "o", "n", "f", "i", "d", "e", "n", "c",
      "e", "\"", ":", " ", "-", "0", ".", "5", ",", " ", "\"", "r", "e", "a", "s", "o", "n",
      "i", "n", "g", "\"", ":", " ", "\"", "o", "k", "\"", "}">>

a_confidence_null ==
    <<"{", "\"", "n", "e", "e", "d", "s", "_", "s", "k", "i", "l", "l", "\"", ":", " ", "t",
      "r", "u", "e", ",", " ", "\"", "s", "k", "i", "l", "l", "_", "n", "a", "m", "e", "\"",
      ":", " ", "\"", "y", "o", "u", "t", "u", "b", "e", "-", "t", "r", "a", "n", "s", "c",
      "r", "i", "p", "t", "\"", ",", " ", "\"", "c", "o", "n", "f", "i", "d", "e", "n", "c",
      "e", "\"", ":", " ", "n", "u", "l", "l", ",", " ", "\"", "r", "e", "a", "s", "o", "n",
      "i", "n", "g", "\"", ":", " ", "\"", "o", "k", "\"", "}">>

a_confidence_word ==
    <<"{", "\"", "n", "e", "e", "d", "s", "_", "s", "k", "i", "l", "l", "\"", ":", " ", "t",
      "r", "u", "e", ",", " ", "\"", "s", "k", "i", "l", "l", "_", "n", "a", "m", "e", "\"",
      ":", " ", "\"", "y", "o", "u", "t", "u", "b", "e", "-", "t", "r", "a", "n", "s", "c",
      "r", "i", "p", "t", "\"", ",", " ", "\"", "c", "o", "n", "f", "i", "d", "e", "n", "c",
      "e", "\"", ":", " ", "\"", "h", "i", "g", "h", "\"", ",", " ", "\"", "r", "e", "a", "s",
      "o", "n", "i", "n", "g", "\"", ":", " ", "\"", "o", "k", "\"", "}">>

a_name_number ==
    <<"{", "\"", "n", "e", "e", "d", "s", "_", "s", "k", "i", "l", "l", "\"", ":", " ", "t",
      "r", "u", "e", ",", " ", "\"", "s", "k", "i", "l", "l", "_", "n", "a", "m", "e", "\"",
      ":", " ", "7", ",", " ", "\"", "c", "o", "n", "f", "i", "d", "e", "n", "c", "e", "\"",
      ":", " ", "0", ".", "9", ",", " ", "\"", "r", "e", "a", "s", "o", "n", "i", "n", "g",
      "\"", ":", " ", "\"", "o", "k", "\"", "}">>

a_name_list ==
    <<"{", "\"", "n", "e", "e", "d", "s", "_", "s", "k", "i", "l", "l", "\"", ":", " ", "t",
      "r", "u", "e", ",", " ", "\"", "s", "k", "i", "l", "l", "_", "n", "a", "m", "e", "\"",
      ":", " ", "[", "\"", "y", "o", "u", "t", "u", "b", "e", "-", "t", "r", "a", "n", "s",
      "c", "r", "i", "p", "t", "\"", "]", ",", " ", "\"", "c", "o", "n", "f", "i", "d", "e",
      "n", "c", "e", "\"", ":", " ", "0", ".", "9", ",", " ", "\"", "r", "e", "a", "s", "o",
      "n", "i", "n", "g", "\"", ":", " ", "\"", "o", "k", "\"", "}">>

desc_tech ==
    <<"S", "u", "m", "m", "a", "r", "i", "z", "e", "s", " ", "Y", "o", "u", "T", "u", "b", "e",
      " ", "t", "e", "c", "h", " ", "t", "a", "l", "k", "s", ".">>

\* SKILL.md documents and the texts of skills_registry.py
md_pdf ==
    <<"-", "-", "-", "\n", "n", "a", "m", "e", ":", " ", "p", "d", "f", "-", "r", "e", "a",
      "d", "e", "r", "\n", "d", "e", "s", "c", "r", "i", "p", "t", "i", "o", "n", ":", " ",
      "R", "e", "a", "d", "s", " ", "P", "D", "F", " ", "f", "i", "l", "e", "s", ".", "\n",
      "-", "-", "-", "\n", "#", " ", "P", "D", "F", "\n", "R", "e", "a", "d", " ", "i", "t",
      ".", "\n">>

md_pdf_v2 ==
    <<"-", "-", "-", "\n", "n", "a", "m", "e", ":", " ", "p", "d", "f", "-", "r", "e", "a",
      "d", "e", "r", "\n", "d", "e", "s", "c", "r", "i", "p", "t", "i", "o", "n", ":", " ",
      "R", "e", "a", "d", "s", " ", "s", "c", "a", "n", "n", "e", "d", " ", "P", "D", "F", "s",
      ".", "\n", "-", "-", "-", "\n", "N", "e", "w", " ", "s", "t", "e", "p", "s", ".", "\n">>

md_notes ==
    <<"-", "-", "-", "\n", "n", "a", "m", "e", ":", " ", "n", "o", "t", "e", "s", "\n", "d",
      "e", "s", "c", "r", "i", "p", "t", "i", "o", "n", ":", " ", "K", "e", "e", "p", "s", " ",
      "n", "o", "t", "e", "s", ".", "\n", "-", "-", "-", "\n", "W", "r", "i", "t", "e", " ",
      "n", "o", "t", "e", "s", ".", "\n">>

md_no_close ==
    <<"-", "-", "-", "\n", "n", "a", "m", "e", ":", " ", "n", "o", "t", "e", "s", "\n", "d",
      "e", "s", "c", "r", "i", "p", "t", "i", "o", "n", ":", " ", "K", "e", "e", "p", "s", " ",
      "n", "o", "t", "e", "s", ".", "\n", "W", "r", "i", "t", "e", " ", "n", "o", "t", "e",
      "s", ".", "\n">>

md_no_name ==
    <<"-", "-", "-", "\n", "d", "e", "s", "c", "r", "i", "p", "t", "i", "o", "n", ":", " ",
      "K", "e", "e", "p", "s", " ", "n", "o", "t", "e", "s", ".", "\n", "-", "-", "-", "\n",
      "W", "r", "i", "t", "e", " ", "n", "o", "t", "e", "s", ".", "\n">>

md_no_description ==
    <<"-", "-", "-", "\n", "n", "a", "m", "e", ":", " ", "n", "o", "t", "e", "s", "\n", "-",
      "-", "-", "\n", "W", "r", "i", "t", "e", " ", "n", "o", "t", "e", "s", ".", "\n">>

md_no_body ==
    <<"-", "-", "-", "\n", "n", "a", "m", "e", ":", " ", "n", "o", "t", "e", "s", "\n", "d",
      "e", "s", "c", "r", "i", "p", "t", "i", "o", "n", ":", " ", "K", "e", "e", "p", "s", " ",
      "n", "o", "t", "e", "s", ".", "\n", "-", "-", "-", "\n">>

s_notes == <<"n", "o", "t", "e", "s">>

t_delimiter == <<"-", "-", "-">>

k_name == <<"n", "a", "m", "e">>

k_description == <<"d", "e", "s", "c", "r", "i", "p", "t", "i", "o", "n">>

k_body == <<"_", "b", "o", "d", "y">>

t_no_description ==
    <<"N", "o", " ", "d", "e", "s", "c", "r", "i", "p", "t", "i", "o", "n", " ", "a", "v", "a",
      "i", "l", "a", "b", "l", "e", ".">>

t_no_skills_available ==
    <<"N", "o", " ", "s", "k", "i", "l", "l", "s", " ", "a", "v", "a", "i", "l", "a", "b", "l",
      "e", ".">>

t_prompt_head ==
    <<"#", "#", " ", "A", "v", "a", "i", "l", "a", "b", "l", "e", " ", "S", "k", "i", "l", "l",
      "s", "\n">>

t_prompt_skill == <<"#", "#", "#", " ", "S", "k", "i", "l", "l", ":", " ">>

t_prompt_description ==
    <<"*", "*", "D", "e", "s", "c", "r", "i", "p", "t", "i", "o", "n", "*", "*", ":", " ">>

(***************************************************************************)
(* Python str operations                                                   *)
(***************************************************************************)

UpperChars ==
    <<"A", "B", "C", "D", "E", "F", "G", "H", "I", "J", "K", "L", "M", "N", "O", "P", "Q", "R",
      "S", "T", "U", "V", "W", "X", "Y", "Z">>

LowerChars ==
    <<"a", "b", "c", "d", "e", "f", "g", "h", "i", "j", "k", "l", "m", "n", "o", "p", "q", "r",
      "s", "t", "u", "v", "w", "x", "y", "z">>

WhiteChars == {" ", "\n", "\t"}

Digits == <<"1", "2", "3", "4", "5", "6", "7", "8", "9">>

IsUpper(c) == \E i \in 1..Len(UpperChars) : UpperChars[i] = c

IsLower(c) == \E i \in 1..Len(LowerChars) : LowerChars[i] = c

lower_char(c) ==
    IF IsUpper(c) THEN LowerChars[CHOOSE i \in 1..Len(UpperChars) : UpperChars[i] = c] ELSE c

upper_char(c) ==
    IF IsLower(c) THEN UpperChars[CHOOSE i \in 1..Len(LowerChars) : LowerChars[i] = c] ELSE c

\* str.lower()
lower(s) == [i \in 1..Len(s) |-> lower_char(s[i])]

\* str.title(): a cased character is upper-cased when the previous character
\* is uncased (or there is none) and lower-cased otherwise
title(s) ==
    [i \in 1..Len(s) |->
        IF i > 1 /\ (IsUpper(s[i - 1]) \/ IsLower(s[i - 1]))
        THEN lower_char(s[i])
        ELSE upper_char(s[i])]

\* str.replace(a, b) for one-character a and b
replace(s, a, b) == [i \in 1..Len(s) |-> IF s[i] = a THEN b ELSE s[i]]

\* str.strip()
strip(s) ==
    LET inner == {i \in 1..Len(s) : s[i] \notin WhiteChars}
    IN  IF inner = {} THEN <<>>
        ELSE SubSeq(s, CHOOSE i \in inner : \A j \in inner : i <= j,
                       CHOOSE i \in inner : \A j \in inner : i >= j)

\* str.rstrip(".")
rstrip_dot(s) ==
    LET keep == {i \in 1..Len(s) : s[i] # "."}
    IN  IF keep = {} THEN <<>>
        ELSE SubSeq(s, 1, CHOOSE i \in keep : \A j \in keep : i >= j)

\* p in s
contains(p, s) ==
    \E i \in 0..(Len(s) - Len(p)) : SubSeq(s, i + 1, i + Len(p)) = p

\* s.startswith(p)
startswith(s, p) == Len(s) >= Len(p) /\ SubSeq(s, 1, Len(p)) = p

\* s.split(". ")[0]
split_first_sentence(s) ==
    LET hits == {i \in 1..(Len(s) - 1) : s[i] = "." /\ s[i + 1] = " "}
    IN  IF hits = {} THEN s
        ELSE SubSeq(s, 1, (CHOOSE i \in hits : \A j \in hits : i <= j) - 1)

RECURSIVE join(_, _)
\* sep.join(parts)
join(sep, parts) ==
    IF parts = <<>> THEN <<>>
    ELSE IF Len(parts) = 1 THEN parts[1]
    ELSE parts[1] \o sep \o join(sep, Tail(parts))

\* the element of a one-element set; {f(x) : x \in {e}} evaluates e once and
\* names its value x
Only(S) == CHOOSE v \in S : TRUE

\* str(i) for the small positive numbers of the model
str_int(i) == <<Digits[i]>>

\* str(list_of_names): "['a', 'b']"
list_repr(names) ==
    <<"[">> \o join(<<",", " ">>, [i \in 1..Len(names) |-> <<"'">> \o names[i] \o <<"'">>])
            \o <<"]">>

\* s.find(p, start): the index from 0 of the first occurrence at or after start, or -1
find(s, p, start) ==
    LET hits == {i \in start..(Len(s) - Len(p)) : SubSeq(s, i + 1, i + Len(p)) = p}
    IN  IF hits = {} THEN -1 ELSE CHOOSE i \in hits : \A j \in hits : i <= j

\* s[a:b] for 0 <= a and 0 <= b
slice(s, a, b) == SubSeq(s, a + 1, IF b > Len(s) THEN Len(s) ELSE b)

RECURSIVE splitlines(_)
\* s.splitlines() for texts whose only line boundary is "\n"
splitlines(s) ==
    IF s = <<>> THEN <<>>
    ELSE LET i == find(s, <<"\n">>, 0)
         IN  IF i = -1 THEN <<s>>
             ELSE <<slice(s, 0, i)>> \o splitlines(slice(s, i + 1, Len(s)))

\* s.partition(sep) for a one-character sep: what is before and after the first sep
partition(s, sep) ==
    LET i == find(s, <<sep>>, 0)
    IN  IF i = -1 THEN [head |-> s, tail |-> <<>>]
        ELSE [head |-> slice(s, 0, i), tail |-> slice(s, i + 1, Len(s))]

RECURSIVE flatten(_)
flatten(ss) == IF ss = <<>> THEN <<>> ELSE Head(ss) \o flatten(Tail(ss))

\* content strings given to extract_text_content
\* texts of the langchain_skills pipeline
q_video_spanish ==
    <<"S", "u", "m", "m", "a", "r", "i", "z", "e", " ", "h", "t", "t", "p", "s", ":", "/", "/",
      "y", "o", "u", "t", "u", ".", "b", "e", "/", "d", "Q", "w", "4", "w", "9", "W", "g", "X",
      "c", "Q", "?", "t", "=", "9", " ", "i", "n", " ", "S", "p", "a", "n", "i", "s", "h">>

t_NONE == <<"N", "O", "N", "E">>

t_http == <<"h", "t", "t", "p">>

t_scheme_end == <<":", "/", "/">>

t_www == <<"w", "w", "w", ".">>

t_m == <<"m", ".">>

t_youtube_com == <<"y", "o", "u", "t", "u", "b", "e", ".", "c", "o", "m", "/">>

t_watch == <<"w", "a", "t", "c", "h", "?", "v", "=">>

t_shorts == <<"s", "h", "o", "r", "t", "s", "/">>

t_embed == <<"e", "m", "b", "e", "d", "/">>

t_youtu_be == <<"y", "o", "u", "t", "u", ".", "b", "e", "/">>

k_video_url == <<"v", "i", "d", "e", "o", "_", "u", "r", "l">>

k_language == <<"l", "a", "n", "g", "u", "a", "g", "e">>

t_no_url ==
    <<"N", "o", " ", "Y", "o", "u", "T", "u", "b", "e", " ", "U", "R", "L", " ", "f", "o", "u",
      "n", "d", " ", "i", "n", " ", "t", "h", "e", " ", "q", "u", "e", "r", "y">>

t_transcript_failed ==
    <<"T", "r", "a", "n", "s", "c", "r", "i", "p", "t", " ", "e", "x", "t", "r", "a", "c", "t",
      "i", "o", "n", " ", "f", "a", "i", "l", "e", "d">>

\* lang_map of node_extract_params, in the order of the pattern's alternatives
lang_map ==
    << [name |-> <<"s", "p", "a", "n", "i", "s", "h">>,
        code |-> <<"e", "s">>],
       [name |-> <<"f", "r", "e", "n", "c", "h">>,
        code |-> <<"f", "r">>],
       [name |-> <<"g", "e", "r", "m", "a", "n">>,
        code |-> <<"d", "e">>],
       [name |-> <<"h", "i", "n", "d", "i">>,
        code |-> <<"h", "i">>],
       [name |-> <<"j", "a", "p", "a", "n", "e", "s", "e">>,
        code |-> <<"j", "a">>],
       [name |-> <<"k", "o", "r", "e", "a", "n">>,
        code |-> <<"k", "o">>],
       [name |-> <<"p", "o", "r", "t", "u", "g", "u", "e", "s", "e">>,
        code |-> <<"p", "t">>],
       [name |-> <<"i", "t", "a", "l", "i", "a", "n">>,
        code |-> <<"i", "t">>],
       [name |-> <<"a", "r", "a", "b", "i", "c">>,
        code |-> <<"a", "r">>],
       [name |-> <<"r", "u", "s", "s", "i", "a", "n">>,
        code |-> <<"r", "u">>] >>

a_web_scraper ==
    <<"{", "\"", "n", "e", "e", "d", "s", "_", "s", "k", "i", "l", "l", "\"", ":", " ", "t",
      "r", "u", "e", ",", " ", "\"", "s", "k", "i", "l", "l", "_", "n", "a", "m", "e", "\"",
      ":", " ", "\"", "w", "e", "b", "-", "p", "a", "g", "e", "-", "s", "c", "r", "a", "p",
      "e", "r", "\"", ",", " ", "\"", "c", "o", "n", "f", "i", "d", "e", "n", "c", "e", "\"",
      ":", " ", "0", ".", "8", ",", " ", "\"", "r", "e", "a", "s", "o", "n", "i", "n", "g",
      "\"", ":", " ", "\"", "o", "k", "\"", "}">>


c_padded == <<" ", " ", "h", "e", "l", "l", "o", " ", "\n">>

c_dump ==
    <<"[", "{", "'", "t", "y", "p", "e", "'", ":", " ", "'", "t", "e", "x", "t", "'", ",", " ",
      "'", "t", "e", "x", "t", "'", ":", " ", "'", "h", "i", "'", "}", "]">>

c_dump_json ==
    <<"[", "{", "\"", "t", "y", "p", "e", "\"", ":", "\"", "t", "e", "x", "t", "\"", ",", "\"",
      "t", "e", "x", "t", "\"", ":", "\"", "q", "\"", "}", ",", "{", "\"", "t", "y", "p", "e",
      "\"", ":", "\"", "i", "m", "a", "g", "e", "\"", "}", "]">>

c_dict_dump ==
    <<"{", "'", "t", "y", "p", "e", "'", ":", " ", "'", "t", "e", "x", "t", "'", ",", " ", "'",
      "t", "e", "x", "t", "'", ":", " ", "'", "s", "o", "l", "o", "'", "}">>

c_sentence ==
    <<"{", "'", "t", "e", "x", "t", "'", ":", " ", "'", "a", "'", "}", " ", "i", "s", " ", "a",
      " ", "d", "i", "c", "t">>

c_open == <<"[", "{", "x">>

c_set == <<"{", "'", "a", "'", ":", " ", "1", "}">>

(***************************************************************************)
(* Bounds of the model                                                     *)
(***************************************************************************)

\* run_agent calls made, one after the other
MaxRuns == 1

\* create_skill calls made
MaxCreates == 1

\* reload_tools calls made
MaxReloads == 1

(***************************************************************************)
(* skills_registry.py                                                      *)
(***************************************************************************)

\* Python None
None == <<"None">>

SkillYt ==
    [name |-> s_youtube_transcript, description |-> desc_yt, full_instructions |-> body_yt]

SkillWeb ==
    [name |-> s_web_page_scraper, description |-> desc_web, full_instructions |-> body_web]

SkillPdf ==
    [name |-> s_pdf_reader, description |-> desc_pdf, full_instructions |-> body_pdf]

\* skills/ directories a process can start with, each a sequence of parsed
\* SKILL.md files in sorted directory order
InitialSkillDirs == { <<>>, <<SkillYt>>, <<SkillWeb, SkillYt>> }

\* registry.setdefault(name, entry): the first entry under a name stays
dict_put_keep_first(reg, e) ==
    IF \E i \in 1..Len(reg) : reg[i].name = e.name THEN reg ELSE Append(reg, e)

\* registry[name] = entry: an existing key keeps its place, a new key goes last
dict_put(reg, e) ==
    IF \E i \in 1..Len(reg) : reg[i].name = e.name
    THEN [i \in 1..Len(reg) |-> IF reg[i].name = e.name THEN e ELSE reg[i]]
    ELSE Append(reg, e)

RECURSIVE load_from(_, _)
load_from(reg, dirs) ==
    IF dirs = <<>> THEN reg
    ELSE Only({load_from(r, Tail(dirs)) : r \in {dict_put(reg, Head(dirs))}})

load_skill_registry(dirs) == load_from(<<>>, dirs)

get_registry(dirs) == load_skill_registry(dirs)

registry_keys(reg) == [i \in 1..Len(reg) |-> reg[i].name]

get_skill_instructions(reg, skill_name) ==
    IF \E i \in 1..Len(reg) : reg[i].name = skill_name
    THEN LET skill == reg[CHOOSE i \in 1..Len(reg) : reg[i].name = skill_name]
         IN  skill.full_instructions
    ELSE None

\* a Python dict as the sequence of its items in insertion order: d[key] = value
dict_set(d, key, value) ==
    IF \E i \in 1..Len(d) : d[i].key = key
    THEN [i \in 1..Len(d) |-> IF d[i].key = key THEN [key |-> key, value |-> value] ELSE d[i]]
    ELSE Append(d, [key |-> key, value |-> value])

\* d.get(key, default)
dict_get(d, key, default) ==
    IF \E i \in 1..Len(d) : d[i].key = key
    THEN d[CHOOSE i \in 1..Len(d) : d[i].key = key].value
    ELSE default

RECURSIVE frontmatter_of(_, _)
\* the loop over fm_block.splitlines() of parse_frontmatter
frontmatter_of(frontmatter, lines) ==
    IF lines = <<>> THEN frontmatter
    ELSE LET line == Head(lines)
             kv   == partition(line, ":")
         IN  frontmatter_of(IF contains(<<":">>, line)
                            THEN dict_set(frontmatter, strip(kv.head), strip(kv.tail))
                            ELSE frontmatter,
                            Tail(lines))

parse_frontmatter(content) ==
    LET end_idx == find(content, t_delimiter, 3)
        closed  == startswith(content, t_delimiter) /\ end_idx # -1
        fm_block == strip(slice(content, 3, end_idx))
        body    == IF closed THEN strip(slice(content, end_idx + 3, Len(content))) ELSE content
        frontmatter == IF closed THEN frontmatter_of(<<>>, splitlines(fm_block)) ELSE <<>>
    IN  dict_set(frontmatter, k_body, body)

\* one turn of the loop of load_skill_registry, up to the entry it registers
read_skill_md(dir, content) ==
    LET meta == parse_frontmatter(content)
    IN  [dir               |-> dir,
         name              |-> dict_get(meta, k_name, dir),
         description       |-> dict_get(meta, k_description, t_no_description),
         full_instructions |-> dict_get(meta, k_body, content)]

\* the entries of sorted(SKILLS_DIR.iterdir()) that hold a SKILL.md
scan_skills_dir(tree) == [i \in 1..Len(tree) |-> read_skill_md(tree[i].dir, tree[i].content)]

\* the lines for one item with the description left out
prompt_lines_name_only(skill) == << t_prompt_skill \o skill.name >>

\* the lines of format_skills_for_prompt for one item of the registry
prompt_lines(skill) ==
    << t_prompt_skill \o skill.name,
       t_prompt_description \o skill.description \o <<"\n">> >>

format_skills_for_prompt(reg) ==
    IF reg = <<>> THEN t_no_skills_available
    ELSE join(<<"\n">>, <<t_prompt_head>> \o flatten([i \in 1..Len(reg) |-> prompt_lines(reg[i])]))

(***************************************************************************)
(* json.loads: JSON text to Python values.  A value is a record tagged by  *)
(* its Python type; a float is held in hundredths                          *)
(***************************************************************************)

JsonNull == [t |-> "NoneType"]

JsonStr(s) == [t |-> "str", s |-> s]

JsonNum(h) == [t |-> "float", hundredths |-> h]

JsonBool(b) == [t |-> "bool", b |-> b]

JsonList(items) == [t |-> "list", items |-> items]

JsonDict(items) == [t |-> "dict", items |-> items]

DecimalDigits == <<"0">> \o Digits

IsDigit(c) == \E i \in 1..Len(DecimalDigits) : DecimalDigits[i] = c

digit_value(c) == (CHOOSE i \in 1..Len(DecimalDigits) : DecimalDigits[i] = c) - 1

RECURSIVE to_int(_)
\* the number a run of digits writes
to_int(ds) ==
    IF ds = <<>> THEN 0 ELSE 10 * to_int(SubSeq(ds, 1, Len(ds) - 1)) + digit_value(ds[Len(ds)])

\* the hundredths a run of fraction digits writes
to_hundredths(ds) ==
    10 * digit_value(ds[1]) + (IF Len(ds) > 1 THEN digit_value(ds[2]) ELSE 0)

RECURSIVE skip_ws(_, _)
\* the first position at or after i that holds no whitespace
skip_ws(s, i) == IF i <= Len(s) /\ s[i] \in WhiteChars THEN skip_ws(s, i + 1) ELSE i

RECURSIVE digits_end(_, _)
\* the first position at or after i that holds no digit
digits_end(s, i) == IF i <= Len(s) /\ IsDigit(s[i]) THEN digits_end(s, i + 1) ELSE i

\* s has p at position i
at(s, i, p) == i + Len(p) - 1 <= Len(s) /\ SubSeq(s, i, i + Len(p) - 1) = p

ParseFailed == [ok |-> FALSE, value |-> JsonNull, pos |-> 0]

Parsed(value, pos) == [ok |-> TRUE, value |-> value, pos |-> pos]

\* a string without escapes that opens at position i
parse_string(s, i) ==
    LET close == find(s, <<"\"">>, i)
    IN  IF close = -1 THEN ParseFailed
        ELSE Parsed(JsonStr(SubSeq(s, i + 1, close)), close + 2)

\* a number -?digits(.digits)? that starts at position i
parse_number(s, i) ==
    LET neg      == s[i] = "-"
        a        == IF neg THEN i + 1 ELSE i
        b        == digits_end(s, a)
        has_frac == b <= Len(s) /\ s[b] = "."
        c        == IF has_frac THEN digits_end(s, b + 1) ELSE b
        whole    == 100 * to_int(SubSeq(s, a, b - 1))
        frac     == IF has_frac THEN to_hundredths(SubSeq(s, b + 1, c - 1)) ELSE 0
    IN  IF b = a \/ (has_frac /\ c = b + 1) THEN ParseFailed
        ELSE Parsed(JsonNum(IF neg THEN 0 - (whole + frac) ELSE whole + frac), c)

RECURSIVE parse_value(_, _)
RECURSIVE parse_elements(_, _, _)
RECURSIVE parse_members(_, _, _)

\* the value that starts at the first non-blank position at or after i
parse_value(s, i) ==
    LET j == skip_ws(s, i)
    IN  IF j > Len(s) THEN ParseFailed
        ELSE IF s[j] = "{"
             THEN IF at(s, skip_ws(s, j + 1), <<"}">>)
                  THEN Parsed(JsonDict(<<>>), skip_ws(s, j + 1) + 1)
                  ELSE parse_members(s, j + 1, <<>>)
        ELSE IF s[j] = "["
             THEN IF at(s, skip_ws(s, j + 1), <<"]">>)
                  THEN Parsed(JsonList(<<>>), skip_ws(s, j + 1) + 1)
                  ELSE parse_elements(s, j + 1, <<>>)
        ELSE IF s[j] = "\"" THEN parse_string(s, j)
        ELSE IF s[j] = "-" \/ IsDigit(s[j]) THEN parse_number(s, j)
        ELSE IF at(s, j, <<"t", "r", "u", "e">>) THEN Parsed(JsonBool(TRUE), j + 4)
        ELSE IF at(s, j, <<"f", "a", "l", "s", "e">>) THEN Parsed(JsonBool(FALSE), j + 5)
        ELSE IF at(s, j, <<"n", "u", "l", "l">>) THEN Parsed(JsonNull, j + 4)
        ELSE ParseFailed

\* the elements of a list from position i on, after those in acc
parse_elements(s, i, acc) ==
    LET v == parse_value(s, i)
        j == skip_ws(s, v.pos)
    IN  IF ~v.ok THEN ParseFailed
        ELSE IF at(s, j, <<",">>) THEN parse_elements(s, j + 1, Append(acc, v.value))
        ELSE IF at(s, j, <<"]">>) THEN Parsed(JsonList(Append(acc, v.value)), j + 1)
        ELSE ParseFailed

\* the members of an object from position i on, after those in acc; a key
\* given twice keeps its last value
parse_members(s, i, acc) ==
    LET k     == skip_ws(s, i)
        key   == IF at(s, k, <<"\"">>) THEN parse_string(s, k) ELSE ParseFailed
        colon == skip_ws(s, key.pos)
        v     == IF key.ok /\ at(s, colon, <<":">>) THEN parse_value(s, colon + 1)
                 ELSE ParseFailed
        j     == skip_ws(s, v.pos)
        items == dict_set(acc, key.value.s, v.value)
    IN  IF ~v.ok THEN ParseFailed
        ELSE IF at(s, j, <<",">>) THEN parse_members(s, j + 1, items)
        ELSE IF at(s, j, <<"}">>) THEN Parsed(JsonDict(items), j + 1)
        ELSE ParseFailed

\* json.loads(s): the value, or ok = FALSE for json.JSONDecodeError
json_loads(s) ==
    LET v == parse_value(s, 1)
    IN  IF v.ok /\ skip_ws(s, v.pos) = Len(s) + 1 THEN v ELSE ParseFailed

(***************************************************************************)
(* skill_matcher.py: select_skill                                          *)
(***************************************************************************)

\* bool(v)
truthy(v) ==
    CASE v.t = "NoneType" -> FALSE
      [] v.t = "bool"     -> v.b
      [] v.t = "float"    -> v.hundredths # 0
      [] v.t = "str"      -> v.s # <<>>
      [] OTHER            -> v.items # <<>>

\* float(v): the number in hundredths, or the exception raised
py_float(v) ==
    CASE v.t = "float" -> [raised |-> "none", hundredths |-> v.hundredths]
      [] v.t = "bool"  -> [raised |-> "none", hundredths |-> IF v.b THEN 100 ELSE 0]
      [] v.t = "str"   ->
            LET text == strip(v.s)
                n    == IF text # <<>> /\ (text[1] = "-" \/ IsDigit(text[1]))
                        THEN parse_number(text, 1) ELSE ParseFailed
            IN  IF n.ok /\ n.pos = Len(text) + 1
                THEN [raised |-> "none", hundredths |-> n.value.hundredths]
                ELSE [raised |-> "ValueError", hundredths |-> 0]
      [] OTHER         -> [raised |-> "TypeError", hundredths |-> 0]

\* s.lstrip() and s.rstrip()
lstrip(s) == SubSeq(s, skip_ws(s, 1), Len(s))

rstrip(s) ==
    LET keep == {i \in 1..Len(s) : s[i] \notin WhiteChars}
    IN  IF keep = {} THEN <<>>
        ELSE SubSeq(s, 1, CHOOSE i \in keep : \A j \in keep : i >= j)

\* s.endswith(p)
endswith(s, p) == Len(s) >= Len(p) /\ SubSeq(s, Len(s) - Len(p) + 1, Len(s)) = p

\* re.sub(r'^```(?:json)?\s*', '', raw) and then re.sub(r'\s*```$', '', raw)
strip_fences(raw) ==
    LET opened == SubSeq(raw, Len(t_fence) + 1, Len(raw))
        r1     == IF ~startswith(raw, t_fence) THEN raw
                  ELSE IF startswith(opened, t_json)
                       THEN lstrip(SubSeq(opened, Len(t_json) + 1, Len(opened)))
                       ELSE lstrip(opened)
    IN  IF endswith(r1, t_fence) THEN rstrip(SubSeq(r1, 1, Len(r1) - Len(t_fence))) ELSE r1

RECURSIVE word_end(_, _)
\* the first position at or after i that holds whitespace
word_end(s, i) == IF i <= Len(s) /\ s[i] \notin WhiteChars THEN word_end(s, i + 1) ELSE i

RECURSIVE split_ws(_)
\* s.split()
split_ws(s) ==
    LET i == skip_ws(s, 1)
        j == word_end(s, i)
    IN  IF i > Len(s) THEN <<>>
        ELSE <<SubSeq(s, i, j - 1)>> \o split_ws(SubSeq(s, j, Len(s)))

\* what select_skill returns, and what it raises
Returned(skill_name, confidence, reasoning) ==
    [raised |-> "none", skill_name |-> skill_name, confidence |-> confidence,
     reasoning |-> reasoning]

Raised(exception) ==
    [raised |-> exception, skill_name |-> JsonNull, confidence |-> 0, reasoning |-> JsonNull]

\* the keywords of the description, longer than 4 characters, found in the query
keyword_matches(user_query, description) ==
    Len(SelectSeq(split_ws(lower(description)),
                  LAMBDA kw : Len(kw) > 4 /\ contains(kw, lower(user_query))))

\* the except branch of select_skill
keyword_fallback(user_query, registry, exception) ==
    LET hits == {i \in 1..Len(registry) :
                    keyword_matches(user_query, registry[i].description) >= 2}
        first == CHOOSE i \in hits : \A j \in hits : i <= j
    IN  IF hits # {}
        THEN Returned(JsonStr(registry[first].name), 50,
                      JsonStr(t_keyword_open
                              \o str_int(keyword_matches(user_query,
                                                         registry[first].description))
                              \o t_keyword_close))
        \* the last element stands for str(e)
        ELSE Returned(JsonNull, 0, JsonStr(t_parse_error \o <<exception>>))

\* the registry names that hold the name or are held by it, letter case aside
fuzzy_hits(skill_name, registry) ==
    {i \in 1..Len(registry) :
        \/ contains(lower(skill_name), lower(registry[i].name))
        \/ contains(lower(registry[i].name), lower(skill_name))}

\* the for loop of select_skill: the first registry name that matches, or None
fuzzy_match(skill_name, registry) ==
    LET hits == fuzzy_hits(skill_name, registry)
    IN  IF hits = {} THEN JsonNull
        ELSE JsonStr(registry[CHOOSE i \in hits : \A j \in hits : i <= j].name)

\* float(parsed.get("confidence", 0.0))
confidence_of(parsed) == py_float(dict_get(parsed, k_confidence, JsonNum(0)))

\* the try block of select_skill for a parsed dict
validate_answer(parsed, registry) ==
    LET needs_skill == dict_get(parsed, k_needs_skill, JsonBool(FALSE))
        skill_name  == IF truthy(needs_skill) THEN dict_get(parsed, k_skill_name, JsonNull)
                       ELSE JsonNull
        confidence  == confidence_of(parsed)
        reasoning   == dict_get(parsed, k_reasoning, JsonStr(<<>>))
        known       == /\ skill_name.t = "str"
                       /\ \E i \in 1..Len(registry) : registry[i].name = skill_name.s
    IN  IF confidence.raised # "none" THEN Raised(confidence.raised)
        ELSE IF ~truthy(skill_name) \/ known
             THEN Returned(skill_name, confidence.hundredths, reasoning)
        ELSE IF skill_name.t \in {"list", "dict"} THEN Raised("TypeError")
        ELSE IF skill_name.t # "str" THEN Raised("AttributeError")
        ELSE Returned(fuzzy_match(skill_name.s, registry), confidence.hundredths, reasoning)

\* except (json.JSONDecodeError, KeyError, ValueError): any other exception
\* leaves select_skill
answer_or_fallback(outcome, user_query, registry) ==
    IF outcome.raised = "ValueError" THEN keyword_fallback(user_query, registry, "ValueError")
    ELSE outcome

\* select_skill(user_query, registry, llm) when llm.invoke returns content
select_skill(user_query, registry, content) ==
    LET raw    == strip_fences(strip(content))
        parsed == json_loads(raw)
    IN  IF registry = <<>> THEN Returned(JsonNull, 0, JsonStr(t_matcher_no_skills))
        ELSE IF ~parsed.ok THEN keyword_fallback(user_query, registry, "JSONDecodeError")
        ELSE IF parsed.value.t # "dict" THEN Raised("AttributeError")
        ELSE answer_or_fallback(validate_answer(parsed.value.items, registry),
                                user_query, registry)

(***************************************************************************)
(* langchain_skills/skills_agent.py: the nodes of the skills pipeline      *)
(***************************************************************************)

\* \w for the characters of the model's texts
is_word_char(c) == IsUpper(c) \/ IsLower(c) \/ IsDigit(c) \/ c = "_"

\* [\w_-] and [a-zA-Z0-9_-]
is_id_char(c) == is_word_char(c) \/ c = "-"

\* [\w=&%-]
is_query_char(c) == is_id_char(c) \/ c \in {"=", "&", "%"}

\* the first position at or after i whose character fails Test
run_end(s, i, Test(_)) ==
    LET stops == {j \in i..(Len(s) + 1) : j > Len(s) \/ ~Test(s[j])}
    IN  CHOOSE j \in stops : \A k \in stops : j <= k

\* the position after p when s has p at position i, and 0 when i is 0 or p is
\* not there
past(s, i, p) == IF i > 0 /\ at(s, i, p) THEN i + Len(p) ELSE 0

\* the first of a and b that is not 0
either(a, b) == IF a > 0 THEN a ELSE b

\* the first alternative of url_pattern matched at position i: the position
\* after the match, or 0
url_end(s, i) ==
    LET scheme == past(s, either(past(s, past(s, i, t_http), <<"s">>),
                                  past(s, i, t_http)), t_scheme_end)
        prefix == either(past(s, scheme, t_www), either(past(s, scheme, t_m), scheme))
        site   == past(s, prefix, t_youtube_com)
        path   == either(past(s, site, t_watch),
                         either(past(s, site, t_shorts),
                                either(past(s, site, t_embed),
                                       past(s, prefix, t_youtu_be))))
        id_end == IF path > 0 THEN run_end(s, path, is_id_char) ELSE 0
    IN  IF path = 0 \/ id_end = path THEN 0
        ELSE IF at(s, id_end, <<"?">>) THEN run_end(s, id_end + 1, is_query_char)
        ELSE id_end

\* the second alternative of url_pattern matched at position i: eleven id
\* characters with no word character before or after them
video_id_end(s, i) ==
    IF /\ i + 10 <= Len(s)
       /\ \A j \in i..(i + 10) : is_id_char(s[j])
       /\ (i = 1 \/ ~is_word_char(s[i - 1]))
       /\ (i + 11 > Len(s) \/ ~is_word_char(s[i + 11]))
    THEN i + 11 ELSE 0

\* re.findall(url_pattern, text): the first match, or None
first_video_match(text) ==
    LET hits  == {i \in 1..Len(text) : either(url_end(text, i), video_id_end(text, i)) > 0}
        first == CHOOSE i \in hits : \A j \in hits : i <= j
    IN  IF hits = {} THEN None
        ELSE SubSeq(text, first,
                    either(url_end(text, first), video_id_end(text, first)) - 1)

\* \b(name)\b matched at position i, letter case aside
language_at(text, i, name) ==
    /\ at(lower(text), i, name)
    /\ (i = 1 \/ ~is_word_char(text[i - 1]))
    /\ (i + Len(name) > Len(text) \/ ~is_word_char(text[i + Len(name)]))

\* re.search of the language pattern and lang_map.get(...): the code of the
\* first language the text names, or None
language_of(text) ==
    LET named(i) == {k \in 1..Len(lang_map) : language_at(text, i, lang_map[k].name)}
        hits     == {i \in 1..Len(text) : named(i) # {}}
        first    == CHOOSE i \in hits : \A j \in hits : i <= j
    IN  IF hits = {} THEN None
        ELSE lang_map[CHOOSE k \in named(first) : \A l \in named(first) : k <= l].code

\* the video_url of node_extract_params: the first match of url_pattern, else
\* what the model extracted unless that is empty or NONE
video_url_of(user_query, extracted) ==
    IF first_video_match(user_query) # None THEN first_video_match(user_query)
    ELSE IF strip(extracted) # <<>> /\ strip(extracted) # t_NONE THEN strip(extracted)
    ELSE None

\* d with d[key] = value when there is a value
dict_set_some(d, key, value) == IF value = None THEN d ELSE dict_set(d, key, value)

\* the params of node_extract_params
extract_params(skill_name, user_query, extracted) ==
    IF skill_name = s_youtube_transcript
    THEN dict_set_some(dict_set_some(<<>>, k_video_url, video_url_of(user_query, extracted)),
                       k_language, language_of(user_query))
    ELSE <<>>

\* what the transcript script and its dependencies can make of a video:
\* execute_youtube_transcript_skill returns a success or a failure dict
TranscriptOutcomes ==
    { [success |-> TRUE, mode |-> "transcript", error |-> None],
      [success |-> FALSE, mode |-> "transcript", error |-> t_transcript_failed] }

\* execute_skill(skill, user_query, extracted_params) when the transcript
\* script ends in outcome
execute_skill(skill, extracted_params, outcome) ==
    IF skill.name = s_youtube_transcript
    THEN IF dict_get(extracted_params, k_video_url, <<>>) = <<>>
         THEN [success |-> FALSE, mode |-> "transcript", error |-> t_no_url]
         ELSE outcome
    ELSE [success |-> TRUE, mode |-> "llm_follows_instructions", error |-> None]

\* route_condition
route_condition(st) ==
    IF truthy(st.selected_skill_name) THEN "load_skill" ELSE "respond"

\* the edges of build_skills_graph: the node after node, END written "END"
next_node(node, st) ==
    CASE node = "initialize" -> "route"
      [] node = "route"      -> route_condition(st)
      [] node = "load_skill" -> "extract"
      [] node = "extract"    -> "execute"
      [] node = "execute"    -> "synthesize"
      [] OTHER               -> "END"


(***************************************************************************)
(* skill_agent.py: built-in tools                                          *)
(***************************************************************************)

SKILL_DISPLAY_NAMES ==
    [n \in {s_medium_blog_generator, s_youtube_transcript, s_youtube_tech_summarizer} |->
        CASE n = s_medium_blog_generator   -> d_medium_blog_generator
          [] n = s_youtube_transcript      -> d_youtube_transcript
          [] n = s_youtube_tech_summarizer -> d_youtube_tech_summarizer]

\* the display name without .title()
display_name_untitled(name) ==
    IF name \in DOMAIN SKILL_DISPLAY_NAMES
    THEN SKILL_DISPLAY_NAMES[name]
    ELSE replace(name, "-", " ")

display_name(name) ==
    IF name \in DOMAIN SKILL_DISPLAY_NAMES
    THEN SKILL_DISPLAY_NAMES[name]
    ELSE title(replace(name, "-", " "))

\* the two lines appended for entry i of the registry
listing_lines(reg, i) ==
    << <<"#", "#", "#", " ">> \o str_int(i) \o <<".", " ">> \o display_name(reg[i].name),
       rstrip_dot(split_first_sentence(reg[i].description)) \o <<".", "\n">> >>

list_available_skills(dirs) ==
    LET registry == get_registry(dirs)
    IN  IF registry = <<>> THEN t_no_skills_loaded
        ELSE join(<<"\n">>,
                  <<t_listing_head>>
                  \o flatten([i \in 1..Len(registry) |-> listing_lines(registry, i)])
                  \o <<t_listing_rule, t_listing_foot>>)

read_skill_instructions(dirs, skill_name) ==
    LET registry     == get_registry(dirs)
        instructions == get_skill_instructions(registry, skill_name)
    IN  IF instructions = None \/ instructions = <<>>
        THEN t_not_found_open \o skill_name \o t_not_found_mid
             \o list_repr(registry_keys(registry))
        ELSE instructions

(***************************************************************************)
(* Tool calls: arguments are Python dicts, here sequences of key/value     *)
(* pairs in insertion order                                                *)
(***************************************************************************)

\* argument names of the tools, in the order sort_keys=True puts them
SortedKeys == <<"input_value", "languages", "skill_name", "video_url_or_id">>

key_rank(k) == CHOOSE i \in 1..Len(SortedKeys) : SortedKeys[i] = k

arg_keys(args) == {args[i].k : i \in 1..Len(args)}

arg_get(args, key) == (args[CHOOSE i \in 1..Len(args) : args[i].k = key]).v

\* the items of args ordered by key
sorted_items(args) ==
    [i \in 1..Len(args) |->
        args[CHOOSE j \in 1..Len(args) :
                Cardinality({h \in 1..Len(args) : key_rank(args[h].k) < key_rank(args[j].k)})
                    = i - 1]]

render_items(items) ==
    <<"{">>
    \o join(<<", ">>, [i \in 1..Len(items) |-> <<"\"", items[i].k, "\": \"">> \o items[i].v \o <<"\"">>])
    \o <<"}">>

\* json.dumps(args, sort_keys=...)
json_dumps(args, sort_keys) ==
    render_items(IF sort_keys THEN sorted_items(args) ELSE args)

\* parameters without default in the tool's signature
required_args(name) ==
    CASE name = n_list_available_skills                       -> {}
      [] name = n_read_skill_instructions                     -> {"skill_name"}
      [] name = n_extract_youtube_transcript                  -> {"video_url_or_id"}
      [] name = n_extract_youtube_transcript_with_timestamps  -> {"video_url_or_id"}
      [] OTHER                                                -> {"input_value"}

\* what an external tool returns on its n-th invocation of the run
external_result(name, n) == name \o <<":">> \o str_int(n)

\* TOOL_MAP[name].invoke(args): the tool's return value, or the exception of
\* the argument validation
tool_invoke(name, args, dirs, n) ==
    IF ~(required_args(name) \subseteq arg_keys(args))
    THEN [raised |-> TRUE, value |-> t_validation_error]
    ELSE [raised |-> FALSE,
          value  |-> CASE name = n_list_available_skills   -> list_available_skills(dirs)
                       [] name = n_read_skill_instructions ->
                              read_skill_instructions(dirs, arg_get(args, "skill_name"))
                       [] OTHER                            -> external_result(name, n)]


(***************************************************************************)
(* create_skill.py: write_to_disk and register_tool, applied to the skills *)
(* directory and to the text of skill_agent.py                             *)
(***************************************************************************)

\* the characters of directory names in code-point order
CharOrder ==
    <<"-", "0", "1", "2", "3", "4", "5", "6", "7", "8", "9">> \o UpperChars \o <<"_">>
    \o LowerChars

char_rank(c) == CHOOSE i \in 1..Len(CharOrder) : CharOrder[i] = c

RECURSIVE str_less(_, _)
\* a < b for Python strings
str_less(a, b) ==
    IF b = <<>> THEN FALSE
    ELSE IF a = <<>> THEN TRUE
    ELSE IF Head(a) = Head(b) THEN str_less(Tail(a), Tail(b))
    ELSE char_rank(Head(a)) < char_rank(Head(b))

\* a skill directory holding the given SKILL.md
skill_dir(dir, skill) ==
    [dir |-> dir, name |-> skill.name, description |-> skill.description,
     full_instructions |-> skill.full_instructions]

dir_names(dirs) == {dirs[i].dir : i \in 1..Len(dirs)}

remove_dir(dirs, dir) == SelectSeq(dirs, LAMBDA d : d.dir # dir)

\* sorted(SKILLS_DIR.iterdir()) after the directory is written
put_dir(dirs, d) ==
    LET rest   == remove_dir(dirs, d.dir)
        before == SelectSeq(rest, LAMBDA x : str_less(x.dir, d.dir))
        after  == SelectSeq(rest, LAMBDA x : str_less(d.dir, x.dir))
    IN  before \o <<d>> \o after

t_backup == <<"_", "b", "a", "c", "k", "u", "p">>

write_to_disk(dirs, skill) ==
    LET dir     == skill.name
        present == dir \in dir_names(dirs)
        old     == dirs[CHOOSE i \in 1..Len(dirs) : dirs[i].dir = dir]
        kept    == IF present
                   THEN remove_dir(put_dir(dirs, [old EXCEPT !.dir = dir \o t_backup]), dir)
                   ELSE dirs
    IN  put_dir(kept, skill_dir(dir, skill))

\* the part of the text of skill_agent.py that names tools: one "def" line per
\* tool function and the entries of TOOLS_LIST
file_content(file) ==
    join(<<"\n">>, [i \in 1..Len(file.defs) |-> <<"d", "e", "f", " ">> \o file.defs[i] \o <<"(">>]
                   \o [i \in 1..Len(file.tools_list) |-> file.tools_list[i] \o <<",">>])

tool_fn_name(skill_name) == replace(skill_name, "-", "_") \o t_tool_suffix

\* register_tool without the test for a function that is already in the file
register_tool_again(file, skill_name) ==
    [file |-> [defs       |-> Append(file.defs, tool_fn_name(skill_name)),
               tools_list |-> <<tool_fn_name(skill_name)>> \o file.tools_list],
     registered |-> TRUE]

\* register_tool: the file afterwards, and the value returned
register_tool(file, skill_name) ==
    LET fn_name == tool_fn_name(skill_name)
    IN  IF contains(fn_name, file_content(file))
        THEN [file |-> file, registered |-> FALSE]
        ELSE [file |-> [defs       |-> Append(file.defs, fn_name),
                        tools_list |-> <<fn_name>> \o file.tools_list],
              registered |-> TRUE]

\* skill_agent.py as shipped
InitialToolsList ==
    << n_business_url_hybrid_search_tool, n_web_page_scraper_tool,
       n_extract_youtube_transcript, n_extract_youtube_transcript_with_timestamps,
       n_list_available_skills, n_read_skill_instructions >>

InitialAgentFile ==
    [defs |-> << n_extract_youtube_transcript, n_extract_youtube_transcript_with_timestamps,
                 n_list_available_skills, n_read_skill_instructions,
                 n_web_page_scraper_tool, n_business_url_hybrid_search_tool >>,
     tools_list |-> InitialToolsList]

\* the map built from the list of the module as shipped
tool_map_of_shipped(tools) == {InitialToolsList[i] : i \in 1..Len(InitialToolsList)}

\* TOOL_MAP = {t.name: t for t in TOOLS}: the names that can be executed
tool_map_of(tools) == {tools[i] : i \in 1..Len(tools)}

\* the else branch of reload_tools: the module is not executed again and the
\* list stays the one of the old module
stale_tools_list(file_list, old_list) == old_list

\* mod.TOOLS_LIST after importlib.reload(sys.modules["skill_agent"]): the
\* list of the file that was just executed, not the list of the old module
reloaded_tools_list(file_list, old_list) == file_list

(***************************************************************************)
(* skill_agent.py: the agent loop                                          *)
(***************************************************************************)

RecursionLimit == 8

\* the pattern test without query.lower()
is_list_skills_query_case_sensitive(query) ==
    LET q == strip(query)
    IN  \E i \in 1..Len(_LIST_SKILLS_PATTERNS) : contains(_LIST_SKILLS_PATTERNS[i], q)

_is_list_skills_query(query) ==
    LET q == strip(lower(query))
    IN  \E i \in 1..Len(_LIST_SKILLS_PATTERNS) : contains(_LIST_SKILLS_PATTERNS[i], q)

k_type == <<"t", "y", "p", "e">>

\* "text": the key of a block and the type of a text block
k_text == <<"t", "e", "x", "t">>

k_content == <<"c", "o", "n", "t", "e", "n", "t">>

\* the prefix of the pattern 'text':\s*'(.*?)'(?=\s*[,}])
t_text_field == <<"'", "t", "e", "x", "t", "'", ":">>

RECURSIVE int_str(_)
\* str(i) for an int
int_str(i) ==
    IF i < 0 THEN <<"-">> \o int_str(0 - i)
    ELSE IF i < 10 THEN <<DecimalDigits[i + 1]>>
    ELSE int_str(i \div 10) \o <<DecimalDigits[(i % 10) + 1]>>

\* repr of a number held in hundredths; one written without a fraction is an int
number_repr(h) ==
    LET a == IF h < 0 THEN 0 - h ELSE h
        sign == IF h < 0 THEN <<"-">> ELSE <<>>
    IN  IF a % 100 = 0 THEN sign \o int_str(a \div 100)
        ELSE IF a % 10 = 0 THEN sign \o int_str(a \div 100) \o <<".">> \o int_str((a % 100) \div 10)
        ELSE sign \o int_str(a \div 100) \o <<".">> \o int_str((a % 100) \div 10)
                  \o int_str(a % 10)

\* repr of a str: in double quotes when it holds ' and no "
str_repr(s) ==
    IF contains(<<"'">>, s) /\ ~contains(<<"\"">>, s) THEN <<"\"">> \o s \o <<"\"">>
    ELSE <<"'">> \o s \o <<"'">>

RECURSIVE py_repr(_)
\* repr(v)
py_repr(v) ==
    CASE v.t = "NoneType" -> <<"N", "o", "n", "e">>
      [] v.t = "bool"     -> IF v.b THEN <<"T", "r", "u", "e">> ELSE <<"F", "a", "l", "s", "e">>
      [] v.t = "float"    -> number_repr(v.hundredths)
      [] v.t = "str"      -> str_repr(v.s)
      [] v.t = "list"     ->
            <<"[">> \o join(<<",", " ">>, [i \in 1..Len(v.items) |-> py_repr(v.items[i])])
                    \o <<"]">>
      [] OTHER            ->
            <<"{">> \o join(<<",", " ">>,
                            [i \in 1..Len(v.items) |->
                                str_repr(v.items[i].key) \o <<":", " ">>
                                    \o py_repr(v.items[i].value)])
                    \o <<"}">>

\* str(v)
py_str(v) == IF v.t = "str" THEN v.s ELSE py_repr(v)

\* key in d
has_key(d, key) == \E i \in 1..Len(d) : d[i].key = key

\* block.get("type") == "text"
is_text_block(block) ==
    LET type == dict_get(block.items, k_type, JsonNull)
    IN  type.t = "str" /\ type.s = k_text

\* what extract_text_content returns, and what it raises
TextReturned(text) == [raised |-> "none", text |-> text]

TextRaised(exception) == [raised |-> exception, text |-> <<>>]

\* "\n".join(parts).strip(): join raises TypeError for a part that is no str
joined(parts) ==
    IF \E i \in 1..Len(parts) : parts[i].t # "str" THEN TextRaised("TypeError")
    ELSE TextReturned(strip(join(<<"\n">>, [i \in 1..Len(parts) |-> parts[i].s])))

\* the loop over the blocks of a list: what one block appends to parts
block_parts(block) ==
    IF block.t = "dict"
    THEN IF is_text_block(block) THEN <<dict_get(block.items, k_text, JsonStr(<<>>))>>
         ELSE IF has_key(block.items, k_text) THEN <<dict_get(block.items, k_text, JsonNull)>>
         ELSE IF has_key(block.items, k_content)
              THEN <<JsonStr(py_str(dict_get(block.items, k_content, JsonNull)))>>
         ELSE <<>>
    ELSE IF block.t = "str" THEN <<block>>
    ELSE <<>>

\* Case 2 of extract_text_content
text_of_blocks(blocks) ==
    joined(SelectSeq(flatten([i \in 1..Len(blocks) |-> block_parts(blocks[i])]), truthy))

\* the position after s[c] holds optional whitespace and then "," or "}"
field_ends(s, c) ==
    LET p == skip_ws(s, c + 1)
    IN  p <= Len(s) /\ s[p] \in {",", "}"}

RECURSIVE text_fields(_, _)
\* re.findall(r"'text':\s*'(.*?)'(?=\s*[,}])", s, re.DOTALL), searched from
\* index start
text_fields(s, start) ==
    LET i      == find(s, t_text_field, start)
        q      == skip_ws(s, i + Len(t_text_field) + 1)
        closes == {c \in (q + 1)..Len(s) : s[c] = "'" /\ field_ends(s, c)}
        c      == CHOOSE x \in closes : \A y \in closes : x <= y
    IN  IF i = -1 THEN <<>>
        ELSE IF q > Len(s) \/ s[q] # "'" \/ closes = {} THEN text_fields(s, i + 1)
        ELSE <<SubSeq(s, q + 1, c - 1)>> \o text_fields(s, c)

\* the guard of Case 1: a str that looks like the repr of a list or a dict
looks_like_dump(text) == startswith(text, <<"[", "{">>) \/ startswith(text, <<"{", "'">>)

\* the try block of the guard: the texts of the parsed text blocks, or
\* nothing returned when the parse or the join raises or no list is parsed
text_of_dump(text) ==
    LET parsed == json_loads(replace(text, "'", "\""))
        blocks == SelectSeq(parsed.value.items, LAMBDA b : b.t = "dict" /\ is_text_block(b))
        parts  == [i \in 1..Len(blocks) |-> dict_get(blocks[i].items, k_text, JsonStr(<<>>))]
    IN  IF parsed.ok /\ parsed.value.t = "list" THEN joined(parts)
        ELSE TextRaised("Exception")

\* Case 1 of extract_text_content
text_of_str(s) ==
    LET text    == strip(s)
        tried   == text_of_dump(text)
        matches == text_fields(text, 0)
    IN  IF ~looks_like_dump(text) THEN TextReturned(text)
        ELSE IF tried.raised = "none" THEN tried
        ELSE IF matches # <<>> THEN TextReturned(strip(join(<<"\n">>, matches)))
        ELSE TextReturned(text)

\* extract_text_content(content) for a str and for a list
extract_text_content(content) ==
    IF content.t = "str" THEN text_of_str(content.s) ELSE text_of_blocks(content.items)

_merge_usage(a, b) ==
    [input_tokens  |-> a.input_tokens + b.input_tokens,
     output_tokens |-> a.output_tokens + b.output_tokens,
     total_tokens  |-> a.total_tokens + b.total_tokens]

ZeroUsage == [input_tokens |-> 0, output_tokens |-> 0, total_tokens |-> 0]

\* the usage every decision-model response of the model reports
ResponseUsage == [input_tokens |-> 2, output_tokens |-> 1, total_tokens |-> 3]

initial_state(user_query) ==
    [messages           |-> << [type |-> "human", content |-> user_query] >>,
     selected_skill     |-> None,
     skill_instructions |-> None,
     tool_results       |-> <<>>,
     final_response     |-> None,
     token_usage        |-> ZeroUsage]

\* the key built from the arguments as the decision model sent them
call_key_unsorted(name, args) == <<name, json_dumps(args, FALSE)>>

call_key(name, args) == <<name, json_dumps(args, TRUE)>>


\* a repeat answered with the note instead of the recorded result
cached_note(tool_results, name, args) == t_note_open \o name \o t_note_close

\* the cached result of the first identical call (the generator's default is
\* a note that the call was already made)
cached_result(tool_results, name, args) ==
    LET same == {i \in 1..Len(tool_results) :
                    /\ tool_results[i].tool = name
                    /\ json_dumps(tool_results[i].args, TRUE) = json_dumps(args, TRUE)}
    IN  IF same = {}
        THEN t_note_open \o name \o t_note_close
        ELSE tool_results[CHOOSE i \in same : \A j \in same : i <= j].result_full

\* the invocation without the try/except around it
invoke_uncaught(outcome, name) == [escaped |-> outcome.raised, result |-> outcome.value]

\* try: TOOL_MAP[name].invoke(args)  except Exception as e: json error string
invoke_caught(outcome, name) ==
    IF outcome.raised
    THEN [escaped |-> FALSE,
          result  |-> t_error_open \o outcome.value \o t_error_tool \o name \o t_json_close]
    ELSE [escaped |-> FALSE, result |-> outcome.value]

\* one iteration of the loop over last_msg.tool_calls
tool_call_step(acc, tc, tool_map, dirs) ==
    Only({
        IF key \in acc.already_called
        THEN [acc EXCEPT !.new_messages =
                 Append(@, [type |-> "tool", name |-> tc.name, tool_call_id |-> tc.id,
                            content |-> cached_result(acc.tool_results, tc.name, tc.args)])]
        ELSE
            LET known   == tc.name \in tool_map
                caught  == Only({invoke_caught(o, tc.name) :
                                  o \in {tool_invoke(tc.name, tc.args, dirs,
                                                     Len(acc.invoked) + 1)}})
            IN  Only({
                [tool_results       |-> Append(acc.tool_results,
                                           [tool           |-> tc.name,
                                            args           |-> tc.args,
                                            result_preview |-> SubSeq(result, 1,
                                                IF Len(result) < 500 THEN Len(result) ELSE 500),
                                            result_full    |-> result]),
                 already_called     |-> acc.already_called \cup {key},
                 skill_instructions |-> IF tc.name = n_read_skill_instructions
                                        THEN result ELSE acc.skill_instructions,
                 new_messages       |-> Append(acc.new_messages,
                                           [type |-> "tool", name |-> tc.name,
                                            tool_call_id |-> tc.id, content |-> result]),
                 invoked            |-> IF known
                                        THEN Append(acc.invoked,
                                                 [tool |-> tc.name, args |-> tc.args,
                                                  result |-> result])
                                        ELSE acc.invoked,
                 escaped            |-> acc.escaped \/ (known /\ caught.escaped)]
                : result \in {IF known THEN caught.result
                              ELSE t_unknown_tool_open \o tc.name \o t_json_close}})
        : key \in {call_key(tc.name, tc.args)}})

\* the loop left after the first tool call of the response
tool_loop_first_only(acc, calls, tool_map, dirs) ==
    IF calls = <<>> THEN acc ELSE tool_call_step(acc, Head(calls), tool_map, dirs)

RECURSIVE tool_loop(_, _, _, _)
tool_loop(acc, calls, tool_map, dirs) ==
    IF calls = <<>> \/ acc.escaped THEN acc
    ELSE Only({tool_loop(a, Tail(calls), tool_map, dirs) :
                  a \in {tool_call_step(acc, Head(calls), tool_map, dirs)}})

\* _tool_node: the state it returns and the tool invocations it made
_tool_node(st, tool_map, dirs, invoked) ==
    LET last_msg == st.messages[Len(st.messages)]
        acc0     == [tool_results       |-> st.tool_results,
                     already_called     |-> {call_key(st.tool_results[i].tool,
                                                      st.tool_results[i].args) :
                                                 i \in 1..Len(st.tool_results)},
                     skill_instructions |-> st.skill_instructions,
                     new_messages       |-> <<>>,
                     invoked            |-> invoked,
                     escaped            |-> FALSE]
    IN  Only({tool_loop(a, calls, tool_map, dirs) : a \in {acc0}, calls \in {last_msg.tool_calls}})

RECURSIVE selected_once(_, _)
\* the loop that keeps the skill once one is selected
selected_once(selected, calls) ==
    IF calls = <<>> THEN selected
    ELSE LET tc == Head(calls)
         IN  selected_once(
                 IF /\ selected = None
                    /\ tc.name = n_read_skill_instructions
                    /\ "skill_name" \in arg_keys(tc.args)
                 THEN arg_get(tc.args, "skill_name") ELSE selected,
                 Tail(calls))

RECURSIVE selected_from(_, _)
\* the loop of _agent_node over response.tool_calls
selected_from(selected, calls) ==
    IF calls = <<>> THEN selected
    ELSE LET tc == Head(calls)
         IN  selected_from(
                 IF tc.name = n_read_skill_instructions /\ "skill_name" \in arg_keys(tc.args)
                 THEN arg_get(tc.args, "skill_name") ELSE selected,
                 Tail(calls))

_should_continue(st) ==
    IF st.messages[Len(st.messages)].tool_calls # <<>> THEN "execute_tools" ELSE "end"

\* a limit that lets one more step through
within_recursion_limit_plus_one(n) == n <= RecursionLimit

\* the graph runs a node only while the step count is below the limit
within_recursion_limit(n) == n < RecursionLimit

(***************************************************************************)
(* Decision-model responses                                                *)
(***************************************************************************)

v_v1 == <<"v", "1">>

v_en == <<"e", "n">>

v_file == <<"f">>

ArgsRead(s) == << [k |-> "skill_name", v |-> s] >>

ArgsYtA == << [k |-> "video_url_or_id", v |-> v_v1], [k |-> "languages", v |-> v_en] >>

\* the same arguments as ArgsYtA with the keys in the other order
ArgsYtB == << [k |-> "languages", v |-> v_en], [k |-> "video_url_or_id", v |-> v_v1] >>

\* the required video_url_or_id is missing: invoke raises
ArgsYtBad == << [k |-> "languages", v |-> v_en] >>

ArgsPdf == << [k |-> "input_value", v |-> v_file] >>

Call(name, args) == [name |-> name, args |-> args]

ToolResponse(calls) == [content |-> <<>>, calls |-> calls]

FinalResponse == [content |-> t_final_answer, calls |-> <<>>]

Responses ==
    { FinalResponse,
      ToolResponse(<<Call(n_read_skill_instructions, ArgsRead(s_youtube_transcript))>>),
      ToolResponse(<<Call(n_read_skill_instructions, ArgsRead(s_no_such_skill))>>),
      ToolResponse(<<Call(n_extract_youtube_transcript, ArgsYtB)>>),
      ToolResponse(<<Call(n_extract_youtube_transcript, ArgsYtA),
                     Call(n_extract_youtube_transcript, ArgsYtB)>>),
      ToolResponse(<<Call(n_extract_youtube_transcript, ArgsYtBad)>>),
      ToolResponse(<<Call(n_pdf_reader_tool, ArgsPdf)>>) }

\* the responses of the runs that go on while the catalog is reloaded
ReloadResponses ==
    { FinalResponse,
      ToolResponse(<<Call(n_read_skill_instructions, ArgsRead(s_pdf_reader))>>),
      ToolResponse(<<Call(n_pdf_reader_tool, ArgsPdf)>>) }

\* the AIMessage of a response; call i of the k-th response has id 10 * k + i
ai_message(resp, k) ==
    [type       |-> "ai",
     content    |-> resp.content,
     tool_calls |-> [i \in 1..Len(resp.calls) |->
                        [name |-> resp.calls[i].name, args |-> resp.calls[i].args,
                         id |-> 10 * k + i]]]

Queries == {q_what_skills, q_What_Skills, q_HELP_ME, q_help_summarise, q_help_2sp, q_transcript}


(***************************************************************************)
(* State                                                                   *)
(***************************************************************************)

VARIABLES
    skill_dirs,     \* the skills/ directory: parsed SKILL.md per directory, sorted
    api_key,        \* whether GOOGLE_API_KEY is set
    agent_file,     \* skill_agent.py on disk: tool functions and TOOLS_LIST
    TOOLS_LIST,     \* module globals of skill_agent
    TOOLS,
    TOOL_MAP,
    reload_pc,      \* position of the reload_tools call in progress
    pc,             \* position of the run_agent call
    user_query,
    registry,       \* the registry passed to run_agent
    state,          \* the AgentState of the graph
    steps,          \* graph steps taken by the run
    result,         \* the dict run_agent returned
    error,          \* the exception that left run_agent
    llm_calls,      \* decision-model invocations of the run
    invoked,        \* tool invocations of the run, in order
    offered,        \* the TOOLS bound to the decision model at the last agent step
    used_map,       \* the TOOL_MAP read by the last execute_tools step
    start_catalog,  \* TOOLS, TOOL_MAP and the state of the reload when the run started
    file_version,   \* successful register_tool calls so far
    reload_version, \* file_version read by the reload in progress
    loaded_version, \* file_version read by the last reload that returned
    n_runs,
    n_creates,
    n_reloads,
    registered,     \* what the register_tool calls returned, in order
    tree,           \* a skills/ directory given to load_skill_registry: SKILL.md text per directory
    loaded,         \* what load_skill_registry returned for tree
    prompt,         \* what format_skills_for_prompt returned for loaded
    asked,          \* the skill_name given to read_skill_instructions
    answer,         \* what read_skill_instructions returned
    llm_text,       \* response.content of the decision model in select_skill
    match_query,    \* the user_query given to select_skill
    match_registry, \* the registry given to select_skill
    match_result,   \* the tuple select_skill returned, or the exception it raised
    fn_pc,          \* position of the call of these functions
    raw_content,    \* the content given to extract_text_content
    response_text,  \* what extract_text_content returned, or the exception it raised
    thread_runs,    \* the run_agent call of each thread: its locals and its graph state
    pipeline_pc,    \* the node the skills pipeline is at
    pipeline_state, \* the SkillAgentState of the skills pipeline
    pipeline_result, \* the dict run_query returned
    pipeline_error  \* the exception that left run_query

catalog_vars == <<agent_file, TOOLS_LIST, TOOLS, TOOL_MAP, reload_pc, file_version,
                  reload_version, loaded_version, n_creates, n_reloads, registered>>

run_vars == <<pc, user_query, registry, state, steps, result, error, llm_calls, invoked,
              offered, used_map, start_catalog, n_runs>>

\* the arguments and results of the registry and matcher functions
fn_vars == <<tree, loaded, prompt, asked, answer, llm_text, match_query, match_registry,
             match_result, fn_pc>>

\* the argument and the result of extract_text_content
text_vars == <<raw_content, response_text>>

\* the state of the calls made outside run_agent, the registry and the matcher
\* the state of a run_query call of the langchain_skills pipeline
pipeline_vars == <<pipeline_pc, pipeline_state, pipeline_result, pipeline_error>>

lib_vars == <<text_vars, thread_runs, pipeline_vars>>

vars == <<skill_dirs, api_key, catalog_vars, run_vars, fn_vars, lib_vars>>

\* the state of the graph when no graph is running
NoState ==
    [messages           |-> <<>>,
     selected_skill     |-> None,
     skill_instructions |-> None,
     tool_results       |-> <<>>,
     final_response     |-> None,
     token_usage        |-> ZeroUsage]

NoResult == [none |-> TRUE]

InFlight == {"agent", "execute_tools"}

\* no registry or matcher function has been called
FnIdle ==
    /\ tree = <<>>
    /\ loaded = <<>>
    /\ prompt = <<>>
    /\ asked = <<>>
    /\ answer = <<>>
    /\ llm_text = <<>>
    /\ match_query = <<>>
    /\ match_registry = <<>>
    /\ match_result = NoResult
    /\ fn_pc = "idle"

\* extract_text_content has not been called
TextIdle ==
    /\ raw_content = <<>>
    /\ response_text = NoResult

\* threads that call run_agent side by side
MaxThreads == 2

Threads == 1..MaxThreads

\* a thread that has not called run_agent
IdleRun ==
    [pc |-> "idle", user_query |-> <<>>, registry |-> <<>>, state |-> NoState, steps |-> 0,
     llm_calls |-> 0, invoked |-> <<>>, result |-> NoResult, error |-> "none"]

\* nothing has been called outside run_agent, the registry and the matcher
LibIdle ==
    /\ TextIdle
    /\ thread_runs = [t \in Threads |-> IdleRun]
    /\ pipeline_pc = "idle"
    /\ pipeline_state = NoResult
    /\ pipeline_result = NoResult
    /\ pipeline_error = "none"

\* the module globals after import and no run_agent call made
ModuleLoaded ==
    /\ agent_file = InitialAgentFile
    /\ TOOLS_LIST = InitialToolsList
    /\ TOOLS = TOOLS_LIST
    /\ TOOL_MAP = tool_map_of(TOOLS)
    /\ reload_pc = "idle"
    /\ pc = "idle"
    /\ user_query = <<>>
    /\ registry = <<>>
    /\ state = NoState
    /\ steps = 0
    /\ result = NoResult
    /\ error = "none"
    /\ llm_calls = 0
    /\ invoked = <<>>
    /\ offered = <<>>
    /\ used_map = {}
    /\ start_catalog = [tools |-> <<>>, map |-> {}, file |-> <<>>, fresh |-> FALSE]
    /\ file_version = 0
    /\ reload_version = 0
    /\ loaded_version = 0
    /\ n_runs = 0
    /\ n_creates = 0
    /\ n_reloads = 0
    /\ registered = <<>>

Init ==
    /\ skill_dirs \in {[i \in 1..Len(d) |-> skill_dir(d[i].name, d[i])] : d \in InitialSkillDirs}
    /\ api_key \in BOOLEAN
    /\ FnIdle
    /\ LibIdle
    /\ ModuleLoaded

(***************************************************************************)
(* run_agent                                                               *)
(***************************************************************************)

\* run_agent(query, registry=get_registry()) up to the first graph step; a
\* list-skills query returns here
StartRun(query) ==
    /\ pc \in {"idle", "returned", "raised"}
    /\ n_runs < MaxRuns
    /\ n_runs' = n_runs + 1
    /\ user_query' = query
    /\ registry' = get_registry(skill_dirs)
    /\ error' = "none"
    /\ llm_calls' = 0
    /\ invoked' = <<>>
    /\ offered' = <<>>
    /\ used_map' = {}
    /\ steps' = 0
    /\ start_catalog' = [tools |-> TOOLS, map |-> TOOL_MAP, file |-> agent_file.tools_list,
                         fresh |-> /\ reload_pc = "idle"
                                   /\ file_version > 0
                                   /\ loaded_version = file_version]
    /\ IF _is_list_skills_query(query)
       THEN /\ result' = [response       |-> list_available_skills(skill_dirs),
                          selected_skill |-> None,
                          tools_called   |-> <<n_list_available_skills>>]
            /\ state' = NoState
            /\ pc' = "returned"
       ELSE /\ result' = NoResult
            /\ state' = initial_state(query)
            /\ pc' = "agent"
    /\ UNCHANGED <<lib_vars, skill_dirs, api_key, fn_vars, catalog_vars>>

\* _agent_node when _get_llm raises ValueError: the exception leaves
\* compiled.invoke and run_agent
AgentNoKey ==
    /\ pc = "agent"
    /\ within_recursion_limit(steps)
    /\ ~api_key
    /\ pc' = "raised"
    /\ error' = "ValueError"
    /\ UNCHANGED <<lib_vars, skill_dirs, api_key, fn_vars, catalog_vars, user_query, registry,
                   state, steps, result, llm_calls, invoked, offered, used_map, start_catalog,
                   n_runs>>

\* _agent_node, _should_continue and, when the graph ends, the rest of run_agent
AgentStep(responses) ==
    /\ pc = "agent"
    /\ within_recursion_limit(steps)
    /\ api_key
    /\ \E resp \in responses :
         LET response == ai_message(resp, llm_calls + 1)
             st       == [state EXCEPT
                             !.messages       = Append(@, response),
                             !.selected_skill = selected_from(@, response.tool_calls),
                             !.token_usage    = _merge_usage(@, ResponseUsage)]
         IN  /\ state' = st
             /\ IF _should_continue(st) = "execute_tools"
                THEN /\ pc' = "execute_tools"
                     /\ result' = result
                ELSE /\ pc' = "returned"
                     /\ result' =
                          [response       |-> extract_text_content(JsonStr(
                                                  st.messages[Len(st.messages)].content)).text,
                           selected_skill |-> st.selected_skill,
                           tools_called   |-> [i \in 1..Len(st.tool_results) |->
                                                  st.tool_results[i].tool],
                           tool_results   |-> st.tool_results,
                           token_usage    |-> st.token_usage]
    /\ llm_calls' = llm_calls + 1
    /\ offered' = TOOLS
    /\ steps' = steps + 1
    /\ UNCHANGED <<lib_vars, skill_dirs, api_key, fn_vars, catalog_vars, user_query, registry,
                   error, invoked, used_map, start_catalog, n_runs>>

\* the execute_tools node and the edge back to agent
ToolStep ==
    /\ pc = "execute_tools"
    /\ within_recursion_limit(steps)
    /\ \E out \in {_tool_node(state, TOOL_MAP, skill_dirs, invoked)} :
           /\ invoked' = out.invoked
           /\ IF out.escaped
              THEN /\ pc' = "raised"
                   /\ error' = "ToolException"
                   /\ state' = state
              ELSE /\ pc' = "agent"
                   /\ error' = error
                   /\ state' = [state EXCEPT
                                   !.messages           = @ \o out.new_messages,
                                   !.skill_instructions = out.skill_instructions,
                                   !.tool_results       = out.tool_results]
    /\ used_map' = TOOL_MAP
    /\ steps' = steps + 1
    /\ UNCHANGED <<lib_vars, skill_dirs, api_key, fn_vars, catalog_vars, user_query, registry,
                   result, llm_calls, offered, start_catalog, n_runs>>

\* compiled.invoke(initial_state, config={"recursion_limit": 8}) raises
\* GraphRecursionError when a node is due and the limit is used up
RecursionLimitReached ==
    /\ pc \in InFlight
    /\ ~within_recursion_limit(steps)
    /\ pc' = "raised"
    /\ error' = "GraphRecursionError"
    /\ UNCHANGED <<lib_vars, skill_dirs, api_key, fn_vars, catalog_vars, user_query, registry,
                   state, steps, result, llm_calls, invoked, offered, used_map, start_catalog,
                   n_runs>>

Next ==
    \/ \E q \in Queries : StartRun(q)
    \/ AgentNoKey
    \/ AgentStep(Responses)
    \/ ToolStep
    \/ RecursionLimitReached

Spec == Init /\ [][Next]_vars


(***************************************************************************)
(* Skill creation and reload_tools                                         *)
(***************************************************************************)

\* the re-created web-page-scraper skill
SkillWeb2 == [SkillWeb EXCEPT !.description = desc_pdf, !.full_instructions = body_pdf]

\* a new skill whose tool name, scraper_tool, is part of web_page_scraper_tool
SkillScraper ==
    [name |-> <<"s", "c", "r", "a", "p", "e", "r">>, description |-> desc_web,
     full_instructions |-> body_web]

CreatableSkills == {SkillPdf, SkillWeb2, SkillScraper}

\* SkillCreator.run_full_pipeline: write_to_disk, then register_tool
run_full_pipeline(skill) ==
    /\ n_creates < MaxCreates
    /\ n_creates' = n_creates + 1
    /\ skill_dirs' = write_to_disk(skill_dirs, skill)
    /\ LET reg == register_tool(agent_file, skill.name)
       IN  /\ agent_file' = reg.file
           /\ file_version' = IF reg.registered THEN file_version + 1 ELSE file_version
           /\ registered' = Append(registered, reg.registered)
    /\ UNCHANGED <<lib_vars, api_key, fn_vars, TOOLS_LIST, TOOLS, TOOL_MAP, reload_pc,
                   reload_version, loaded_version, n_reloads, run_vars>>

\* reload_tools: importlib.reload executes skill_agent.py again, statement by
\* statement: first TOOLS_LIST = [...]
ReloadBegin ==
    /\ reload_pc = "idle"
    /\ n_reloads < MaxReloads
    /\ TOOLS_LIST' = reloaded_tools_list(agent_file.tools_list, TOOLS_LIST)
    /\ reload_version' = file_version
    /\ reload_pc' = "module_tools"
    /\ UNCHANGED <<lib_vars, skill_dirs, api_key, fn_vars, agent_file, TOOLS, TOOL_MAP,
                   file_version, loaded_version, n_creates, registered, n_reloads, run_vars>>

\* TOOLS = list(TOOLS_LIST) of the module
ReloadModuleTools ==
    /\ reload_pc = "module_tools"
    /\ TOOLS' = TOOLS_LIST
    /\ reload_pc' = "module_map"
    /\ UNCHANGED <<lib_vars, skill_dirs, api_key, fn_vars, agent_file, TOOLS_LIST, TOOL_MAP,
                   file_version, reload_version, loaded_version, n_creates, registered,
                   n_reloads, run_vars>>

\* TOOL_MAP = {t.name: t for t in TOOLS} of the module
ReloadModuleMap ==
    /\ reload_pc = "module_map"
    /\ TOOL_MAP' = tool_map_of(TOOLS)
    /\ reload_pc' = "assign_tools"
    /\ UNCHANGED <<lib_vars, skill_dirs, api_key, fn_vars, agent_file, TOOLS_LIST, TOOLS,
                   file_version, reload_version, loaded_version, n_creates, registered,
                   n_reloads, run_vars>>

\* TOOLS = mod.TOOLS_LIST
ReloadAssignTools ==
    /\ reload_pc = "assign_tools"
    /\ TOOLS' = TOOLS_LIST
    /\ reload_pc' = "assign_map"
    /\ UNCHANGED <<lib_vars, skill_dirs, api_key, fn_vars, agent_file, TOOLS_LIST, TOOL_MAP,
                   file_version, reload_version, loaded_version, n_creates, registered,
                   n_reloads, run_vars>>

\* TOOL_MAP = {t.name: t for t in TOOLS}, and reload_tools returns
ReloadAssignMap ==
    /\ reload_pc = "assign_map"
    /\ TOOL_MAP' = tool_map_of(TOOLS)
    /\ reload_pc' = "idle"
    /\ loaded_version' = reload_version
    /\ n_reloads' = n_reloads + 1
    /\ UNCHANGED <<lib_vars, skill_dirs, api_key, fn_vars, agent_file, TOOLS_LIST, TOOLS,
                   file_version, reload_version, n_creates, registered, run_vars>>

NextReload ==
    \/ \E q \in {q_what_skills, q_transcript} : StartRun(q)
    \/ AgentNoKey
    \/ AgentStep(ReloadResponses)
    \/ ToolStep
    \/ RecursionLimitReached
    \/ \E skill \in CreatableSkills : run_full_pipeline(skill)
    \/ ReloadBegin
    \/ ReloadModuleTools
    \/ ReloadModuleMap
    \/ ReloadAssignTools
    \/ ReloadAssignMap

SpecReload == Init /\ [][NextReload]_vars

\* the graph takes its next step, the decision model and the tools answer
FairSpec ==
    /\ Spec
    /\ WF_vars(AgentNoKey)
    /\ WF_vars(AgentStep(Responses))
    /\ WF_vars(ToolStep)
    /\ WF_vars(RecursionLimitReached)


(***************************************************************************)
(* run_agent with tools that may not return                                *)
(***************************************************************************)

\* the calls of the latest response that _tool_node passes to
\* TOOL_MAP[name].invoke and that reach the body of a tool other than the two
\* that only read the skills directory
external_invocations(st, tool_map, dirs, done) ==
    LET out == _tool_node(st, tool_map, dirs, done)
    IN  {i \in (Len(done) + 1)..Len(out.invoked) :
            /\ out.invoked[i].tool \notin {n_list_available_skills, n_read_skill_instructions}
            /\ required_args(out.invoked[i].tool) \subseteq arg_keys(out.invoked[i].args)}

\* _tool_node inside TOOL_MAP[name].invoke(args) of a tool whose script or
\* request does not return: the call has no timeout and nothing else runs in
\* the thread of the run
ToolBlocks ==
    /\ pc = "execute_tools"
    /\ within_recursion_limit(steps)
    /\ external_invocations(state, TOOL_MAP, skill_dirs, invoked) # {}
    /\ pc' = "in_tool"
    /\ used_map' = TOOL_MAP
    /\ UNCHANGED <<lib_vars, skill_dirs, api_key, fn_vars, catalog_vars, user_query, registry,
                   state, steps, result, error, llm_calls, invoked, offered, start_catalog,
                   n_runs>>

NextBlocking ==
    \/ \E q \in Queries : StartRun(q)
    \/ AgentNoKey
    \/ AgentStep(Responses)
    \/ ToolStep
    \/ ToolBlocks
    \/ RecursionLimitReached

\* the graph takes its next step and the decision model answers; a tool
\* answers or does not
SpecBlocking ==
    /\ Init
    /\ [][NextBlocking]_vars
    /\ WF_vars(AgentNoKey)
    /\ WF_vars(AgentStep(Responses))
    /\ WF_vars(ToolStep \/ ToolBlocks)
    /\ WF_vars(RecursionLimitReached)


(***************************************************************************)
(* skill_agent.py: extract_text_content called on a content                *)
(***************************************************************************)

\* blocks of a content list
MaxBlocks == 2

TextBlock(text) ==
    JsonDict(<< [key |-> k_type, value |-> JsonStr(k_text)], [key |-> k_text, value |-> text] >>)

\* a block of another type that holds value under key
OtherBlock(type, key, value) ==
    JsonDict(<< [key |-> k_type, value |-> JsonStr(type)], [key |-> key, value |-> value] >>)

t_image == <<"i", "m", "a", "g", "e">>

t_tool_result == <<"t", "o", "o", "l", "_", "r", "e", "s", "u", "l", "t">>

k_data == <<"d", "a", "t", "a">>

ContentBlocks ==
    { TextBlock(JsonStr(<<"a">>)),
      TextBlock(JsonStr(<<"b", " ", "c">>)),
      TextBlock(JsonStr(<<>>)),
      TextBlock(JsonNull),
      TextBlock(JsonList(<<JsonStr(<<"a">>)>>)),
      JsonDict(<< [key |-> k_text, value |-> JsonStr(<<"t">>)] >>),
      JsonStr(<<"p">>),
      OtherBlock(t_image, k_data, JsonStr(<<"x">>)),
      OtherBlock(t_tool_result, k_content, JsonStr(<<"h", "i">>)),
      OtherBlock(t_tool_result, k_content, JsonNull),
      OtherBlock(t_tool_result, k_content, JsonList(<<TextBlock(JsonStr(<<"h", "i">>))>>)) }

ContentLists ==
    UNION {[1..n -> ContentBlocks] : n \in 0..MaxBlocks}

ContentStrings ==
    {c_padded, c_dump, c_dump_json, c_dict_dump, c_sentence, c_open, c_set, t_final_answer}

Contents == {JsonList(l) : l \in ContentLists} \cup {JsonStr(s) : s \in ContentStrings}

InitContent ==
    /\ skill_dirs = <<>>
    /\ api_key = FALSE
    /\ FnIdle
    /\ ModuleLoaded
    /\ raw_content \in Contents
    /\ response_text = NoResult
    /\ thread_runs = [t \in Threads |-> IdleRun]
    /\ pipeline_pc = "idle"
    /\ pipeline_state = NoResult
    /\ pipeline_result = NoResult
    /\ pipeline_error = "none"

\* response_text = extract_text_content(raw_content)
ExtractText ==
    /\ response_text = NoResult
    /\ response_text' = extract_text_content(raw_content)
    /\ UNCHANGED <<raw_content, thread_runs, pipeline_vars, skill_dirs, api_key, catalog_vars,
                   run_vars, fn_vars>>

NextContent == ExtractText

SpecContent == InitContent /\ [][NextContent]_vars


(***************************************************************************)
(* run_agent called by several threads at once                             *)
(***************************************************************************)

ThreadQueries == {q_what_skills, q_transcript}

ThreadResponses ==
    { FinalResponse, ToolResponse(<<Call(n_extract_youtube_transcript, ArgsYtB)>>) }

\* run_agent with a tool_results list that is made once and used by every call
ThreadStartRun_shared_results(t, query) ==
    /\ thread_runs[t].pc = "idle"
    /\ ~_is_list_skills_query(query)
    /\ thread_runs' =
         [thread_runs EXCEPT ![t] =
             [@ EXCEPT !.pc         = "agent",
                       !.user_query = query,
                       !.registry   = get_registry(skill_dirs),
                       !.state      = [initial_state(query) EXCEPT !.tool_results =
                                          flatten([o \in Threads |->
                                                      thread_runs[o].state.tool_results])]]]
    /\ UNCHANGED <<text_vars, pipeline_vars, skill_dirs, api_key, catalog_vars, run_vars, fn_vars>>

\* run_agent(query) in thread t, up to the first graph step: registry,
\* compiled and initial_state are locals of the call
ThreadStartRun(t, query) ==
    /\ thread_runs[t].pc = "idle"
    /\ thread_runs' =
         [thread_runs EXCEPT ![t] =
             IF _is_list_skills_query(query)
             THEN [@ EXCEPT !.pc         = "returned",
                            !.user_query = query,
                            !.registry   = get_registry(skill_dirs),
                            !.result     = [response       |-> list_available_skills(skill_dirs),
                                            selected_skill |-> None,
                                            tools_called   |-> <<n_list_available_skills>>]]
             ELSE [@ EXCEPT !.pc         = "agent",
                            !.user_query = query,
                            !.registry   = get_registry(skill_dirs),
                            !.state      = initial_state(query)]]
    /\ UNCHANGED <<text_vars, pipeline_vars, skill_dirs, api_key, catalog_vars, run_vars, fn_vars>>

\* _agent_node of thread t when _get_llm raises ValueError
ThreadAgentNoKey(t) ==
    /\ thread_runs[t].pc = "agent"
    /\ within_recursion_limit(thread_runs[t].steps)
    /\ ~api_key
    /\ thread_runs' = [thread_runs EXCEPT ![t].pc = "raised", ![t].error = "ValueError"]
    /\ UNCHANGED <<text_vars, pipeline_vars, skill_dirs, api_key, catalog_vars, run_vars, fn_vars>>

\* _agent_node and _should_continue of thread t and, when its graph ends,
\* the rest of its run_agent call
ThreadAgentStep(t) ==
    /\ thread_runs[t].pc = "agent"
    /\ within_recursion_limit(thread_runs[t].steps)
    /\ api_key
    /\ \E resp \in ThreadResponses :
         LET run      == thread_runs[t]
             response == ai_message(resp, run.llm_calls + 1)
             st       == [run.state EXCEPT
                             !.messages       = Append(@, response),
                             !.selected_skill = selected_from(@, response.tool_calls),
                             !.token_usage    = _merge_usage(@, ResponseUsage)]
         IN  thread_runs' =
               [thread_runs EXCEPT ![t] =
                   [run EXCEPT
                       !.state     = st,
                       !.llm_calls = @ + 1,
                       !.steps     = @ + 1,
                       !.pc        = IF _should_continue(st) = "execute_tools"
                                     THEN "execute_tools" ELSE "returned",
                       !.result    =
                           IF _should_continue(st) = "execute_tools" THEN @
                           ELSE [response       |-> extract_text_content(JsonStr(
                                                        st.messages[Len(st.messages)].content)).text,
                                 selected_skill |-> st.selected_skill,
                                 tools_called   |-> [i \in 1..Len(st.tool_results) |->
                                                        st.tool_results[i].tool],
                                 tool_results   |-> st.tool_results,
                                 token_usage    |-> st.token_usage]]]
    /\ UNCHANGED <<text_vars, pipeline_vars, skill_dirs, api_key, catalog_vars, run_vars, fn_vars>>

\* the execute_tools node of thread t and the edge back to agent
ThreadToolStep(t) ==
    /\ thread_runs[t].pc = "execute_tools"
    /\ within_recursion_limit(thread_runs[t].steps)
    /\ \E out \in {_tool_node(thread_runs[t].state, TOOL_MAP, skill_dirs,
                              thread_runs[t].invoked)} :
         thread_runs' =
           [thread_runs EXCEPT ![t] =
               IF out.escaped
               THEN [@ EXCEPT !.pc = "raised", !.error = "ToolException",
                              !.invoked = out.invoked, !.steps = @ + 1]
               ELSE [@ EXCEPT !.pc      = "agent",
                              !.invoked = out.invoked,
                              !.steps   = @ + 1,
                              !.state   = [@ EXCEPT
                                              !.messages           = @ \o out.new_messages,
                                              !.skill_instructions = out.skill_instructions,
                                              !.tool_results       = out.tool_results]]]
    /\ UNCHANGED <<text_vars, pipeline_vars, skill_dirs, api_key, catalog_vars, run_vars, fn_vars>>

\* compiled.invoke of thread t raises GraphRecursionError
ThreadRecursionLimitReached(t) ==
    /\ thread_runs[t].pc \in InFlight
    /\ ~within_recursion_limit(thread_runs[t].steps)
    /\ thread_runs' = [thread_runs EXCEPT ![t].pc = "raised", ![t].error = "GraphRecursionError"]
    /\ UNCHANGED <<text_vars, pipeline_vars, skill_dirs, api_key, catalog_vars, run_vars, fn_vars>>

NextThreads ==
    \E t \in Threads :
        \/ \E q \in ThreadQueries : ThreadStartRun(t, q)
        \/ ThreadAgentNoKey(t)
        \/ ThreadAgentStep(t)
        \/ ThreadToolStep(t)
        \/ ThreadRecursionLimitReached(t)

SpecThreads == Init /\ [][NextThreads]_vars


(***************************************************************************)
(* skills_registry.py called on a skills/ directory                        *)
(***************************************************************************)

\* directories of a skills/ tree
MaxDirs == 2

\* directory names in the order sorted() gives them; write_to_disk makes the
\* third when it re-creates the second
DirNames == <<s_notes, s_pdf_reader, s_pdf_reader \o t_backup>>

SkillDocuments ==
    {md_pdf, md_pdf_v2, md_notes, md_no_close, md_no_name, md_no_description, md_no_body}

\* the documents with no closing delimiter, no name field or no description field
MalformedDocuments == {md_no_close, md_no_name, md_no_description}

\* the i-th smallest element of a set of numbers
nth(S, i) == CHOOSE x \in S : Cardinality({y \in S : y < x}) = i - 1

\* every skills/ directory of at most MaxDirs skill directories
Trees ==
    UNION { { [i \in 1..Cardinality(S) |-> [dir |-> DirNames[nth(S, i)], content |-> c[i]]] :
                c \in [1..Cardinality(S) -> SkillDocuments] } :
            S \in {T \in SUBSET (1..Len(DirNames)) : Cardinality(T) <= MaxDirs} }

AskedNames == {s_notes, s_pdf_reader, s_no_such_skill}

InitRegistry ==
    /\ LibIdle
    /\ skill_dirs = <<>>
    /\ api_key = FALSE
    /\ ModuleLoaded
    /\ tree \in Trees
    /\ loaded = <<>>
    /\ prompt = <<>>
    /\ asked = <<>>
    /\ answer = <<>>
    /\ llm_text = <<>>
    /\ match_query = <<>>
    /\ match_registry = <<>>
    /\ match_result = NoResult
    /\ fn_pc = "idle"

\* registry = load_skill_registry()
LoadRegistry ==
    /\ fn_pc = "idle"
    /\ loaded' = load_skill_registry(scan_skills_dir(tree))
    /\ fn_pc' = "loaded"
    /\ UNCHANGED <<lib_vars, skill_dirs, api_key, catalog_vars, run_vars, tree, prompt, asked,
                   answer, llm_text, match_query, match_registry, match_result>>

\* format_skills_for_prompt(registry)
FormatPrompt ==
    /\ fn_pc = "loaded"
    /\ prompt' = format_skills_for_prompt(loaded)
    /\ fn_pc' = "formatted"
    /\ UNCHANGED <<lib_vars, skill_dirs, api_key, catalog_vars, run_vars, tree, loaded, asked,
                   answer, llm_text, match_query, match_registry, match_result>>

\* read_skill_instructions.invoke({"skill_name": name}), which loads the
\* registry again from the same directory
ReadInstructions(name) ==
    /\ fn_pc \in {"loaded", "formatted"}
    /\ asked' = name
    /\ answer' = read_skill_instructions(scan_skills_dir(tree), name)
    /\ fn_pc' = "answered"
    /\ UNCHANGED <<lib_vars, skill_dirs, api_key, catalog_vars, run_vars, tree, loaded, prompt,
                   llm_text, match_query, match_registry, match_result>>

NextRegistry ==
    \/ LoadRegistry
    \/ FormatPrompt
    \/ \E name \in AskedNames : ReadInstructions(name)

SpecRegistry == InitRegistry /\ [][NextRegistry]_vars


(***************************************************************************)
(* skill_matcher.py called on a registry and an answer of the model        *)
(***************************************************************************)

SkillTech ==
    [name |-> s_youtube_tech_summarizer, description |-> desc_tech,
     full_instructions |-> body_yt]

\* registries in the order their directories were scanned
MatcherRegistries ==
    { <<>>, <<SkillYt>>, <<SkillWeb, SkillYt>>, <<SkillTech, SkillYt>>, <<SkillYt, SkillTech>> }

MatcherQueries == {q_transcript, q_extract_youtube, q_summarizes_extract}

\* what the decision model may answer
ModelAnswers ==
    {a_exact, a_underscore, a_youtube, a_longer, a_unknown, a_no_skill, a_fenced, a_prose,
     a_list, a_string, a_over, a_negative, a_confidence_null, a_confidence_word,
     a_name_number, a_name_list}

InitMatcher ==
    /\ LibIdle
    /\ skill_dirs = <<>>
    /\ api_key = FALSE
    /\ ModuleLoaded
    /\ tree = <<>>
    /\ loaded = <<>>
    /\ prompt = <<>>
    /\ asked = <<>>
    /\ answer = <<>>
    /\ llm_text = <<>>
    /\ match_query \in MatcherQueries
    /\ match_registry \in MatcherRegistries
    /\ match_result = NoResult
    /\ fn_pc = "idle"

\* select_skill with an empty registry returns before the model is asked
SelectNoSkills ==
    /\ fn_pc = "idle"
    /\ match_registry = <<>>
    /\ match_result' = select_skill(match_query, match_registry, llm_text)
    /\ fn_pc' = "selected"
    /\ UNCHANGED <<lib_vars, skill_dirs, api_key, catalog_vars, run_vars, tree, loaded, prompt,
                   asked, answer, llm_text, match_query, match_registry>>

\* response = llm.invoke(messages)
InvokeModel(content) ==
    /\ fn_pc = "idle"
    /\ match_registry # <<>>
    /\ llm_text' = content
    /\ fn_pc' = "invoked"
    /\ UNCHANGED <<lib_vars, skill_dirs, api_key, catalog_vars, run_vars, tree, loaded, prompt,
                   asked, answer, match_query, match_registry, match_result>>

\* the rest of select_skill
SelectSkill ==
    /\ fn_pc = "invoked"
    /\ match_result' = select_skill(match_query, match_registry, llm_text)
    /\ fn_pc' = "selected"
    /\ UNCHANGED <<lib_vars, skill_dirs, api_key, catalog_vars, run_vars, tree, loaded, prompt,
                   asked, answer, llm_text, match_query, match_registry>>

NextMatcher ==
    \/ SelectNoSkills
    \/ \E content \in ModelAnswers : InvokeModel(content)
    \/ SelectSkill

SpecMatcher == InitMatcher /\ [][NextMatcher]_vars


(***************************************************************************)
(* langchain_skills/skills_agent.py: run_query on a skills/ directory      *)
(***************************************************************************)

\* initial_state of run_query; pipeline_trace holds the tag of each node's
\* first trace line
initial_pipeline_state(query) ==
    [user_query                |-> query,
     skill_registry            |-> <<>>,
     selected_skill_name       |-> JsonNull,
     skill_confidence          |-> 0,
     skill_selection_reasoning |-> JsonStr(<<>>),
     loaded_skill              |-> NoResult,
     extracted_params          |-> <<>>,
     execution_result          |-> NoResult,
     final_response            |-> <<>>,
     pipeline_trace            |-> <<"START">>]

\* trace.append of the node's first line
traced(st, tag) == [st EXCEPT !.pipeline_trace = Append(@, tag)]

\* load_full_skill(metadata)
load_full_skill(metadata) ==
    [metadata |-> metadata, full_instructions |-> strip(metadata.full_instructions)]

PipelineQueries == {q_transcript, q_extract_youtube, q_summarizes_extract, q_video_spanish}

\* what the model may answer in node_route
RouteAnswers ==
    {a_exact, a_youtube, a_unknown, a_no_skill, a_prose, a_list, a_confidence_null,
     a_web_scraper}

\* what the model may answer in node_extract_params
ExtractAnswers == {t_NONE, <<" ">> \o v_v1, <<>>}

\* what the model may answer in node_synthesize and node_respond
FinalAnswers == {t_final_answer, <<>>}

\* run_query up to app.invoke(initial_state)
run_query(query) ==
    /\ pipeline_pc = "idle"
    /\ pipeline_state' = initial_pipeline_state(query)
    /\ pipeline_pc' = "initialize"
    /\ UNCHANGED <<text_vars, thread_runs, pipeline_result, pipeline_error, skill_dirs, api_key,
                   catalog_vars, run_vars, fn_vars>>

node_initialize ==
    /\ pipeline_pc = "initialize"
    /\ pipeline_state' = [traced(pipeline_state, "INITIALIZE")
                             EXCEPT !.skill_registry = load_from(<<>>, skill_dirs)]
    /\ pipeline_pc' = next_node("initialize", pipeline_state')
    /\ UNCHANGED <<text_vars, thread_runs, pipeline_result, pipeline_error, skill_dirs, api_key,
                   catalog_vars, run_vars, fn_vars>>

\* node_route when the model answers content; an exception of select_skill
\* leaves app.invoke and run_query
node_route(content) ==
    /\ pipeline_pc = "route"
    /\ LET st       == traced(pipeline_state, "ROUTE")
           selected == select_skill(st.user_query, st.skill_registry, content)
       IN  IF selected.raised # "none"
           THEN /\ pipeline_state' = st
                /\ pipeline_pc' = "raised"
                /\ pipeline_error' = selected.raised
           ELSE /\ pipeline_state' =
                       [st EXCEPT !.selected_skill_name = selected.skill_name,
                                  !.skill_confidence = selected.confidence,
                                  !.skill_selection_reasoning = selected.reasoning]
                /\ pipeline_pc' = next_node("route", pipeline_state')
                /\ UNCHANGED pipeline_error
    /\ UNCHANGED <<text_vars, thread_runs, pipeline_result, skill_dirs, api_key, catalog_vars,
                   run_vars, fn_vars>>

\* node_load_skill; registry[skill_name] raises KeyError for a name that is
\* not a key
node_load_skill ==
    /\ pipeline_pc = "load_skill"
    /\ LET st       == traced(pipeline_state, "LOAD_SKILL")
           entries  == st.skill_registry
           keys     == {i \in 1..Len(entries) :
                           JsonStr(entries[i].name) = st.selected_skill_name}
       IN  IF keys = {}
           THEN /\ pipeline_state' = st
                /\ pipeline_pc' = "raised"
                /\ pipeline_error' = "KeyError"
           ELSE /\ pipeline_state' =
                       [st EXCEPT !.loaded_skill =
                                      load_full_skill(entries[CHOOSE i \in keys : TRUE])]
                /\ pipeline_pc' = next_node("load_skill", pipeline_state')
                /\ UNCHANGED pipeline_error
    /\ UNCHANGED <<text_vars, thread_runs, pipeline_result, skill_dirs, api_key, catalog_vars,
                   run_vars, fn_vars>>

\* node_extract_params when the model, if asked, answers extracted
node_extract_params(extracted) ==
    /\ pipeline_pc = "extract"
    /\ pipeline_state' =
           [traced(pipeline_state, "EXTRACT")
               EXCEPT !.extracted_params =
                          extract_params(pipeline_state.selected_skill_name.s,
                                         pipeline_state.user_query, extracted)]
    /\ pipeline_pc' = next_node("extract", pipeline_state')
    /\ UNCHANGED <<text_vars, thread_runs, pipeline_result, pipeline_error, skill_dirs, api_key,
                   catalog_vars, run_vars, fn_vars>>

\* node_execute when the transcript script, if run, ends in outcome
node_execute(outcome) ==
    /\ pipeline_pc = "execute"
    /\ pipeline_state' =
           [traced(pipeline_state, "EXECUTE")
               EXCEPT !.execution_result =
                          execute_skill(pipeline_state.loaded_skill.metadata,
                                        pipeline_state.extracted_params, outcome)]
    /\ pipeline_pc' = next_node("execute", pipeline_state')
    /\ UNCHANGED <<text_vars, thread_runs, pipeline_result, pipeline_error, skill_dirs, api_key,
                   catalog_vars, run_vars, fn_vars>>

\* node_synthesize when the model answers content
node_synthesize(content) ==
    /\ pipeline_pc = "synthesize"
    /\ pipeline_state' = [traced(pipeline_state, "SYNTHESIZE") EXCEPT !.final_response = content]
    /\ pipeline_pc' = next_node("synthesize", pipeline_state')
    /\ UNCHANGED <<text_vars, thread_runs, pipeline_result, pipeline_error, skill_dirs, api_key,
                   catalog_vars, run_vars, fn_vars>>

\* node_respond when the model answers content
node_respond(content) ==
    /\ pipeline_pc = "respond"
    /\ pipeline_state' = [traced(pipeline_state, "RESPOND") EXCEPT !.final_response = content]
    /\ pipeline_pc' = next_node("respond", pipeline_state')
    /\ UNCHANGED <<text_vars, thread_runs, pipeline_result, pipeline_error, skill_dirs, api_key,
                   catalog_vars, run_vars, fn_vars>>

\* run_query after app.invoke returned final_state
run_query_returns ==
    /\ pipeline_pc = "END"
    /\ pipeline_result' = [response   |-> pipeline_state.final_response,
                           skill_used |-> pipeline_state.selected_skill_name,
                           confidence |-> pipeline_state.skill_confidence,
                           trace      |-> pipeline_state.pipeline_trace]
    /\ pipeline_pc' = "returned"
    /\ UNCHANGED <<text_vars, thread_runs, pipeline_state, pipeline_error, skill_dirs, api_key,
                   catalog_vars, run_vars, fn_vars>>

InitPipeline ==
    /\ LibIdle
    /\ skill_dirs \in {[i \in 1..Len(d) |-> skill_dir(d[i].name, d[i])] : d \in MatcherRegistries}
    /\ api_key = TRUE
    /\ ModuleLoaded
    /\ FnIdle

NextPipeline ==
    \/ \E query \in PipelineQueries : run_query(query)
    \/ node_initialize
    \/ \E content \in RouteAnswers : node_route(content)
    \/ node_load_skill
    \/ \E extracted \in ExtractAnswers : node_extract_params(extracted)
    \/ \E outcome \in TranscriptOutcomes : node_execute(outcome)
    \/ \E content \in FinalAnswers : node_synthesize(content)
    \/ \E content \in FinalAnswers : node_respond(content)
    \/ run_query_returns

SpecPipeline == InitPipeline /\ [][NextPipeline]_vars


(***************************************************************************)
(* Properties                                                              *)
(***************************************************************************)

\* the tool calls requested by the decision model so far, in order
requests == flatten([i \in 1..Len(state.messages) |->
                        IF state.messages[i].type = "ai" THEN state.messages[i].tool_calls
                        ELSE <<>>])

\* the tool-result messages of the conversation, in order
tool_messages == SelectSeq(state.messages, LAMBDA m : m.type = "tool")

same_call(name1, args1, name2, args2) ==
    name1 = name2 /\ sorted_items(args1) = sorted_items(args2)

\* C1: within one run no tool is invoked twice with the same name and the same
\* arguments, the arguments compared with their keys sorted; this covers
\* repeats across turns, inside one response, and read_skill_instructions
C1_NoToolInvokedTwice ==
    \A i, j \in 1..Len(invoked) :
        same_call(invoked[i].tool, invoked[i].args, invoked[j].tool, invoked[j].args)
            => i = j

\* two answered requests of different turns name the same call with the keys
\* in different orders
C1_Witness ==
    \E a, b \in 1..Len(requests) :
        /\ requests[a].id + 10 <= requests[b].id
        /\ requests[a].args # requests[b].args
        /\ same_call(requests[a].name, requests[a].args, requests[b].name, requests[b].args)
        /\ \E m \in 1..Len(tool_messages) : tool_messages[m].tool_call_id = requests[b].id
        /\ Len(invoked) >= 1

\* C2: the tool-result message of every request carries the full result
\* recorded for the first call with that name and those canonical arguments,
\* and tool_results holds no two entries with the same name and canonical
\* arguments
C2_RepeatServedFromCache ==
    /\ \A i, j \in 1..Len(state.tool_results) :
           same_call(state.tool_results[i].tool, state.tool_results[i].args,
                     state.tool_results[j].tool, state.tool_results[j].args) => i = j
    /\ \A m \in 1..Len(tool_messages) : \A r \in 1..Len(requests) :
           requests[r].id = tool_messages[m].tool_call_id =>
               \E i \in 1..Len(state.tool_results) :
                   /\ same_call(state.tool_results[i].tool, state.tool_results[i].args,
                                requests[r].name, requests[r].args)
                   /\ tool_messages[m].content = state.tool_results[i].result_full
    /\ \A i \in 1..Len(invoked) : \E j \in 1..Len(state.tool_results) :
           /\ same_call(invoked[i].tool, invoked[i].args,
                        state.tool_results[j].tool, state.tool_results[j].args)
           /\ state.tool_results[j].result_full = invoked[i].result

\* a repeated call was answered: more result messages than recorded results,
\* and the repeated call is one that was really invoked
C2_Witness ==
    /\ Len(tool_messages) > Len(state.tool_results)
    /\ \E m, n \in 1..Len(tool_messages) :
           /\ m < n
           /\ tool_messages[m].name = n_extract_youtube_transcript
           /\ tool_messages[n].name = n_extract_youtube_transcript
           /\ tool_messages[m].content = external_result(n_extract_youtube_transcript, 1)

C4_FatalFailureReturnsResult == pc # "raised"

ResultFields == {"response", "selected_skill", "tools_called", "tool_results", "token_usage"}

\* C5: every result of run_agent has the fields response, selected_skill,
\* tools_called, tool_results and token_usage
C5_ResultShape == pc = "returned" => DOMAIN result = ResultFields

\* the requests the execute_tools node has already handled
answered_requests ==
    IF pc = "execute_tools"
    THEN SelectSeq(requests, LAMBDA r : r.id < 10 * llm_calls)
    ELSE requests

\* C6: a tool failure never aborts the run: a call to a name outside the
\* catalog or a call whose tool raises gets an error string as its recorded
\* result and as its result message, no exception leaves the step, and the
\* next step of the run is the agent's
C6_ToolFailureNeverAborts ==
    /\ error # "ToolException"
    /\ \A i \in 1..Len(state.tool_results) :
           LET tr == state.tool_results[i]
           IN  /\ tr.tool \notin TOOL_MAP =>
                      tr.result_full = t_unknown_tool_open \o tr.tool \o t_json_close
               /\ (tr.tool \in TOOL_MAP /\ ~(required_args(tr.tool) \subseteq arg_keys(tr.args)))
                      => /\ startswith(tr.result_full, t_error_open)
                         /\ contains(tr.tool, tr.result_full)
    /\ \A r \in 1..Len(answered_requests) : \E m \in 1..Len(tool_messages) :
           tool_messages[m].tool_call_id = answered_requests[r].id
    /\ (pc \in {"agent", "returned"} /\ Len(state.messages) > 1 /\ error = "none") =>
           \A r \in 1..Len(requests) : \E m \in 1..Len(tool_messages) :
               tool_messages[m].tool_call_id = requests[r].id

\* an unknown tool and a raising tool were both called, and the decision
\* model was called again afterwards
C6_Witness ==
    /\ \E i \in 1..Len(state.tool_results) : state.tool_results[i].tool \notin TOOL_MAP
    /\ \E i \in 1..Len(state.tool_results) :
           /\ state.tool_results[i].tool \in TOOL_MAP
           /\ startswith(state.tool_results[i].result_full, t_error_open)
    /\ llm_calls >= 3
    /\ pc = "returned"


C8_InFlightRunUsesOneCatalog ==
    pc \in InFlight \cup {"returned", "raised"} =>
        /\ offered # <<>> => offered = start_catalog.tools
        /\ used_map # {} => used_map = start_catalog.map
        /\ (offered # <<>> /\ used_map # {}) => used_map = tool_map_of(offered)

\* C9: a query that contains one of the trigger substrings, compared in lower
\* case, never reaches the decision model, and the response is the text the
\* list_available_skills tool returns
C9_ListQueryBypassesModel ==
    (pc # "idle" /\ \E i \in 1..Len(_LIST_SKILLS_PATTERNS) :
                        contains(_LIST_SKILLS_PATTERNS[i], lower(user_query))) =>
        /\ pc = "returned"
        /\ llm_calls = 0
        /\ steps = 0
        /\ result.response = tool_invoke(n_list_available_skills, <<>>, skill_dirs, 1).value

\* a query whose trigger is not in lower case took the fast path over a
\* registry with skills
C9_Witness ==
    /\ pc = "returned"
    /\ llm_calls = 0
    /\ user_query \in {q_What_Skills, q_HELP_ME}
    /\ registry # <<>>

is_fast_path_result == pc = "returned" /\ DOMAIN result # ResultFields

\* C10 as stated: the listing returned for a list-skills query contains the
\* name of every skill in the registry
C10_ListingHasEverySkillName ==
    is_fast_path_result =>
        \A i \in 1..Len(registry) : contains(registry[i].name, result.response)

\* C10 amended: the listing returned for a list-skills query contains, for
\* every skill of the registry, its display name: the SKILL_DISPLAY_NAMES
\* entry of the name, or else the name with "-" replaced by " " in title case
C10_ListingHasEveryDisplayName ==
    is_fast_path_result =>
        \A i \in 1..Len(registry) :
            contains(IF registry[i].name \in DOMAIN SKILL_DISPLAY_NAMES
                     THEN SKILL_DISPLAY_NAMES[registry[i].name]
                     ELSE title(replace(registry[i].name, "-", " ")),
                     result.response)

\* a listing of two skills, one with a SKILL_DISPLAY_NAMES entry and one
\* without, that contains neither skill name
C10_Witness ==
    /\ is_fast_path_result
    /\ Len(registry) = 2
    /\ \E i \in 1..Len(registry) : registry[i].name \in DOMAIN SKILL_DISPLAY_NAMES
    /\ \E i \in 1..Len(registry) : registry[i].name \notin DOMAIN SKILL_DISPLAY_NAMES
    /\ \A i \in 1..Len(registry) : ~contains(registry[i].name, result.response)

\* load_skill_registry has returned for tree
registry_loaded == fn_pc \in {"loaded", "formatted", "answered"}

\* C11: when load_skill_registry has scanned a tree, the registry has no
\* entry for a directory whose SKILL.md has no closing delimiter, no name
\* field or no description field
C11_MalformedDocumentOmitted ==
    registry_loaded =>
        \A i \in 1..Len(tree) :
            tree[i].content \in MalformedDocuments =>
                \A j \in 1..Len(loaded) : loaded[j].dir # tree[i].dir

\* the entries load_skill_registry reads from the directories, in scan order
scanned == scan_skills_dir(tree)

\* C12: a registry built by load_skill_registry holds no name twice, and the
\* entry under a name is the one of the last scanned directory declaring it
C12_UniqueNamesLastScannedWins ==
    registry_loaded =>
        /\ \A i, j \in 1..Len(loaded) : loaded[i].name = loaded[j].name => i = j
        /\ \A k \in 1..Len(scanned) :
               \E i \in 1..Len(loaded) :
                   /\ loaded[i].name = scanned[k].name
                   /\ \E last \in k..Len(scanned) :
                          /\ scanned[last].name = scanned[k].name
                          /\ \A m \in (last + 1)..Len(scanned) :
                                 scanned[m].name # scanned[k].name
                          /\ loaded[i] = scanned[last]

\* two directories declared the same name and the registry holds the second
C12_Witness ==
    /\ registry_loaded
    /\ Len(tree) = 2
    /\ scanned[1].name = scanned[2].name
    /\ scanned[1] # scanned[2]
    /\ loaded = <<scanned[2]>>

\* C13: read_skill_instructions returns the full instructions of a
\* registered name and, for any other name, the not-found message with the
\* list of the registered names
C13_RegisteredNameGetsInstructions ==
    fn_pc = "answered" =>
        IF \E i \in 1..Len(loaded) : loaded[i].name = asked
        THEN \E i \in 1..Len(loaded) :
                 loaded[i].name = asked /\ answer = loaded[i].full_instructions
        ELSE answer = t_not_found_open \o asked \o t_not_found_mid
                      \o list_repr(registry_keys(loaded))

\* the rest of each line of text that starts with prefix, in order
lines_after(prefix, text) ==
    LET found == SelectSeq(splitlines(text), LAMBDA line : startswith(line, prefix))
    IN  [i \in 1..Len(found) |-> SubSeq(found[i], Len(prefix) + 1, Len(found[i]))]

\* C14: the text of format_skills_for_prompt, read back line by line, names
\* every entry of the registry once and gives every description once, both in
\* the order of the registry; for an empty registry it is "No skills available."
C14_PromptHasEveryEntryOnce ==
    fn_pc = "formatted" =>
        IF loaded = <<>>
        THEN prompt = t_no_skills_available
        ELSE /\ lines_after(t_prompt_skill, prompt) = registry_keys(loaded)
             /\ lines_after(t_prompt_description, prompt) =
                    [i \in 1..Len(loaded) |-> loaded[i].description]

\* the prompt of a registry of two skills with different descriptions
C14_Witness ==
    /\ fn_pc = "formatted"
    /\ Len(loaded) = 2
    /\ loaded[1].description # loaded[2].description
    /\ Len(lines_after(t_prompt_skill, prompt)) = 2

\* select_skill has returned or raised
skill_selected == fn_pc = "selected"

\* C15: select_skill never raises and returns a tuple of a skill name or
\* None, a confidence and a reasoning, whatever text the decision model gave
C15_SelectSkillNeverThrows ==
    skill_selected =>
        /\ match_result.raised = "none"
        /\ match_result.skill_name.t \in {"str", "NoneType"}

\* the decision model's text as select_skill reads it
model_answer == json_loads(strip_fences(strip(llm_text)))

\* the skill name of a well-formed answer: an object that asks for a skill,
\* names it with a non-empty string and gives a number as confidence
answered_name == dict_get(model_answer.value.items, k_skill_name, JsonNull)

well_formed_answer ==
    /\ match_registry # <<>>
    /\ model_answer.ok
    /\ model_answer.value.t = "dict"
    /\ dict_get(model_answer.value.items, k_needs_skill, JsonNull) = JsonBool(TRUE)
    /\ answered_name.t = "str"
    /\ answered_name.s # <<>>
    /\ dict_get(model_answer.value.items, k_confidence, JsonNull).t = "float"

\* the registry names that contain the answered name or are contained in it,
\* letter case aside
candidates ==
    {match_registry[i].name : i \in
        {j \in 1..Len(match_registry) :
            \/ contains(lower(answered_name.s), lower(match_registry[j].name))
            \/ contains(lower(match_registry[j].name), lower(answered_name.s))}}

\* C16: for a well-formed answer whose skill name is no key of the registry,
\* select_skill returns the one registry name that matches it by containment,
\* and no skill when none or more than one matches
C16_FuzzyMatchOnlyWhenUnique ==
    (skill_selected /\ well_formed_answer
       /\ \A i \in 1..Len(match_registry) : match_registry[i].name # answered_name.s) =>
        /\ match_result.raised = "none"
        /\ match_result.skill_name =
              IF Cardinality(candidates) = 1
              THEN JsonStr(CHOOSE name \in candidates : TRUE)
              ELSE JsonNull

\* C17: for a well-formed answer naming "youtube_transcript" and a registry
\* whose only youtube skill is "youtube-transcript", select_skill returns
\* "youtube-transcript"
C17_UnderscoreNameResolves ==
    (skill_selected /\ llm_text = a_underscore
       /\ (\E i \in 1..Len(match_registry) : match_registry[i].name = s_youtube_transcript)
       /\ \A i \in 1..Len(match_registry) :
              match_registry[i].name # s_youtube_tech_summarizer) =>
        match_result.skill_name = JsonStr(s_youtube_transcript)

\* C18: the confidence select_skill returns lies in [0, 1]
C18_ConfidenceInUnitInterval ==
    (skill_selected /\ match_result.raised = "none") =>
        match_result.confidence \in 0..100

\* a run_full_pipeline step for a skill whose tool function is already in
\* skill_agent.py
re_registration ==
    /\ n_creates' = n_creates + 1
    /\ \E skill \in CreatableSkills :
           /\ skill_dirs' = write_to_disk(skill_dirs, skill)
           /\ contains(tool_fn_name(skill.name), file_content(agent_file))

\* a step of a reload_tools call that read skill_agent.py as the last load
\* left it
reload_of_unchanged_file == reload_pc # "idle" /\ reload_version = loaded_version

\* C19: register_tool for a tool function that already exists leaves
\* skill_agent.py as it is and returns False, and the steps of a reload_tools
\* call that follows leave TOOLS and TOOL_MAP as they were
C19_ReRegistrationIsNoOp ==
    [][/\ re_registration =>
            /\ agent_file' = agent_file
            /\ registered' = Append(registered, FALSE)
            /\ reloaded_tools_list(agent_file'.tools_list, TOOLS_LIST') =
                   reloaded_tools_list(agent_file.tools_list, TOOLS_LIST)
       /\ (reload_of_unchanged_file /\ registered # <<>>
             /\ \A i \in 1..Len(registered) : ~registered[i]) =>
            /\ TOOLS' = TOOLS
            /\ TOOL_MAP' = TOOL_MAP]_vars

\* web-page-scraper was created again, register_tool returned False, a
\* reload_tools call after it has returned and the catalog is the shipped one
C19_Witness ==
    /\ registered = <<FALSE>>
    /\ n_reloads = 1
    /\ reload_pc = "idle"
    /\ agent_file = InitialAgentFile
    /\ TOOLS = InitialToolsList
    /\ \E i \in 1..Len(skill_dirs) : skill_dirs[i].dir = s_web_page_scraper \o t_backup

\* the names offered to the decision model
tool_names == {TOOLS[i] : i \in 1..Len(TOOLS)}

C21_ToolInvocationBounded ==
    (pc \in {"execute_tools", "in_tool"}) ~> (pc \in {"agent", "returned", "raised"})

\* the text a block of a content list bears: a str block, the str under
\* "text", or else the str under "content"; no text for any other block
borne_text(block) ==
    LET field(key) == dict_get(block.items, key, JsonNull)
    IN  IF block.t = "str" THEN block.s
        ELSE IF block.t # "dict" THEN <<>>
        ELSE IF field(k_text).t = "str" THEN field(k_text).s
        ELSE IF ~has_key(block.items, k_text) /\ field(k_content).t = "str"
             THEN field(k_content).s
        ELSE <<>>

\* the non-empty texts of the blocks, in their order
borne_texts(blocks) ==
    SelectSeq([i \in 1..Len(blocks) |-> borne_text(blocks[i])], LAMBDA text : text # <<>>)

\* C22: for a list of content blocks extract_text_content returns the
\* non-empty texts of the text-bearing blocks, in their order, joined by
\* newlines (surrounding whitespace aside), a block without text adding
\* nothing; for a str that does not open like a dump of a list or a dict it
\* returns the str without its surrounding whitespace
C22_ExtractsTextOfBlocks ==
    response_text # NoResult =>
        /\ response_text.raised = "none"
        /\ raw_content.t = "list" =>
               response_text.text = strip(join(<<"\n">>, borne_texts(raw_content.items)))
        /\ (raw_content.t = "str" /\ ~looks_like_dump(strip(raw_content.s))) =>
               response_text.text = strip(raw_content.s)

\* the ids of the messages, or of the tool calls, of a sequence
ids_of(calls) == [i \in 1..Len(calls) |-> calls[i].id]

\* C23: an execute_tools step appends one tool-result message per tool call
\* of the latest agent response, duplicates and unknown tools included, each
\* with the id and the name of its request and in the order of the requests,
\* and the agent node runs next; when the decision model is asked, every
\* request made so far has its result in the conversation, in request order
C23_OneResultPerRequestInOrder ==
    [][/\ (pc = "execute_tools" /\ pc' \notin {"execute_tools", "raised"}) =>
            LET calls == state.messages[Len(state.messages)].tool_calls
                added == SubSeq(state'.messages, Len(state.messages) + 1, Len(state'.messages))
            IN  /\ pc' = "agent"
                /\ SubSeq(state'.messages, 1, Len(state.messages)) = state.messages
                /\ Len(added) = Len(calls)
                /\ \A i \in 1..Len(added) :
                       /\ added[i].type = "tool"
                       /\ added[i].tool_call_id = calls[i].id
                       /\ added[i].name = calls[i].name
       /\ (pc = "agent" /\ llm_calls' = llm_calls + 1) =>
            [i \in 1..Len(tool_messages) |-> tool_messages[i].tool_call_id] = ids_of(requests)]_vars

\* a response asked twice for the same call and another for a tool outside
\* the catalog; all three have their result message and the run has returned
C23_Witness ==
    /\ pc = "returned"
    /\ Len(tool_messages) = Len(requests)
    /\ Len(tool_messages) > Len(state.tool_results)
    /\ \E m \in 1..Len(tool_messages) : tool_messages[m].name \notin TOOL_MAP
    /\ \E m \in 1..(Len(tool_messages) - 1) :
           /\ tool_messages[m + 1].tool_call_id = tool_messages[m].tool_call_id + 1
           /\ tool_messages[m + 1].content = tool_messages[m].content

\* the requests of the run that repeat no earlier request, in order
first_requests ==
    SelectSeq(requests,
              LAMBDA r : ~\E j \in 1..Len(requests) :
                            /\ requests[j].id < r.id
                            /\ same_call(requests[j].name, requests[j].args, r.name, r.args))

\* the read_skill_instructions requests of the run that name a skill
read_requests ==
    SelectSeq(requests,
              LAMBDA r : r.name = n_read_skill_instructions /\ "skill_name" \in arg_keys(r.args))

\* the skill named by the latest read_skill_instructions request, if any
requested_skill ==
    IF read_requests = <<>> THEN None
    ELSE arg_get(read_requests[Len(read_requests)].args, "skill_name")

\* run_agent returned from the graph, not from the list-skills fast path
graph_result == pc = "returned" /\ "tool_results" \in DOMAIN result

requests_of(run) ==
    flatten([i \in 1..Len(run.state.messages) |->
                IF run.state.messages[i].type = "ai" THEN run.state.messages[i].tool_calls
                ELSE <<>>])

\* those of them that the execute_tools node of the run has handled
handled_of(run) ==
    IF run.pc = "execute_tools"
    THEN SelectSeq(requests_of(run), LAMBDA r : r.id < 10 * run.llm_calls)
    ELSE requests_of(run)

\* the state of a run holds nothing but what the run itself put there
owns_its_state(run) ==
    /\ run.state.messages[1] = [type |-> "human", content |-> run.user_query]
    /\ \A i \in 1..Len(run.state.messages) :
           run.state.messages[i].type = "tool" =>
               \E r \in 1..Len(requests_of(run)) :
                   requests_of(run)[r].id = run.state.messages[i].tool_call_id
    /\ run.state.token_usage.total_tokens = ResponseUsage.total_tokens * run.llm_calls
    /\ \A i \in 1..Len(run.state.tool_results) :
           \E r \in 1..Len(requests_of(run)) :
               same_call(run.state.tool_results[i].tool, run.state.tool_results[i].args,
                         requests_of(run)[r].name, requests_of(run)[r].args)

\* every call the run asked for and has handled was invoked in the run itself
executes_its_calls(run) ==
    \A r \in 1..Len(handled_of(run)) :
        LET req == handled_of(run)[r]
        IN  (req.name \in TOOL_MAP /\ required_args(req.name) \subseteq arg_keys(req.args)) =>
                \E i \in 1..Len(run.invoked) :
                    same_call(run.invoked[i].tool, run.invoked[i].args, req.name, req.args)

\* C25: every run_agent call owns its state: a step of one call changes no
\* other call's conversation, tool_results, cache and token totals, the state
\* of a call holds only what that call put there, and a tool call that one
\* call has executed is executed again when another call asks for it
C25_RunsShareNoState ==
    [][/\ \A t \in Threads :
            thread_runs'[t] # thread_runs[t] =>
                \A o \in Threads \ {t} : thread_runs'[o] = thread_runs[o]
       /\ \A t \in Threads :
            thread_runs'[t].state.messages # <<>> =>
                /\ owns_its_state(thread_runs'[t])
                /\ executes_its_calls(thread_runs'[t])]_vars

\* two calls asked for the same tool call and each invoked the tool once, one
\* of them still in its graph after the other has returned
C25_Witness ==
    \E t, o \in Threads :
        /\ t # o
        /\ thread_runs[t].pc = "execute_tools"
        /\ thread_runs[o].pc = "returned"
        /\ Len(thread_runs[t].invoked) = 1
        /\ Len(thread_runs[o].invoked) = 1
        /\ same_call(thread_runs[t].invoked[1].tool, thread_runs[t].invoked[1].args,
                     thread_runs[o].invoked[1].tool, thread_runs[o].invoked[1].args)
        /\ Len(thread_runs[o].state.tool_results) = 1

\* the description tokens of registry entry i that are longer than 4
\* characters and occur in the query
overlap(i) == keyword_matches(match_query, match_registry[i].description)

\* the entries with the highest overlap
best_overlap ==
    {i \in 1..Len(match_registry) : \A j \in 1..Len(match_registry) : overlap(i) >= overlap(j)}

\* C26: when the answer of the decision model is no JSON, select_skill
\* returns the skill whose description shares the most tokens with the query,
\* with confidence 0.5, if that skill shares at least 2; and if no skill
\* shares 2 it returns no skill, confidence 0 and a reasoning that reports
\* the parse error
C26_FallbackTakesHighestOverlap ==
    (skill_selected /\ match_registry # <<>> /\ ~model_answer.ok) =>
        /\ match_result.raised = "none"
        /\ IF \E i \in best_overlap : overlap(i) >= 2
           THEN /\ \E i \in best_overlap : match_result.skill_name = JsonStr(match_registry[i].name)
                /\ match_result.confidence = 50
           ELSE /\ match_result.skill_name = JsonNull
                /\ match_result.confidence = 0
                /\ match_result.reasoning.t = "str"
                /\ startswith(match_result.reasoning.s, t_parse_error)

\* the entry the registry loaded from dirs holds under name
entry_of(dirs, name) ==
    LET reg == get_registry(dirs)
    IN  reg[CHOOSE i \in 1..Len(reg) : reg[i].name = name]

\* C27: when write_to_disk has written a skill over an existing skill
\* directory of the same name, the registry loaded next holds under that name
\* the description and the instructions just written
C27_RecreatedSkillIsLoaded ==
    [][\A skill \in CreatableSkills :
          (/\ n_creates' = n_creates + 1
           /\ skill_dirs' = write_to_disk(skill_dirs, skill)
           /\ skill.name \in dir_names(skill_dirs)) =>
              /\ \E i \in 1..Len(get_registry(skill_dirs')) :
                     get_registry(skill_dirs')[i].name = skill.name
              /\ entry_of(skill_dirs', skill.name).description = skill.description
              /\ entry_of(skill_dirs', skill.name).full_instructions = skill.full_instructions
      ]_vars

\* the tool functions skill_agent.py defines
defined_tools == {agent_file.defs[i] : i \in 1..Len(agent_file.defs)}

\* C28: register_tool adds the tool function and its TOOLS_LIST entry, and
\* returns True, whenever skill_agent.py defines no function with exactly the
\* derived name; a function whose name only contains the derived name does
\* not stand in the way
C28_RegistersUnlessExactNameDefined ==
    [][\A skill \in CreatableSkills :
          (/\ n_creates' = n_creates + 1
           /\ skill_dirs' = write_to_disk(skill_dirs, skill)
           /\ tool_fn_name(skill.name) \notin defined_tools) =>
              /\ registered' = Append(registered, TRUE)
              /\ tool_fn_name(skill.name) \in defined_tools'
              /\ \E i \in 1..Len(agent_file'.tools_list) :
                     agent_file'.tools_list[i] = tool_fn_name(skill.name)
      ]_vars

\* the skill names of the registry given to the run
run_registry_names == {registry[i].name : i \in 1..Len(registry)}

\* C29: the selected_skill that run_agent reports is None or the name of a
\* skill of the registry the run was given, whatever name the decision model
\* passed to read_skill_instructions
C29_SelectedSkillIsRegistered ==
    graph_result =>
        \/ result.selected_skill = None
        \/ result.selected_skill \in run_registry_names

\* the nodes a run_query call has executed, in order
nodes_run == Tail(pipeline_state.pipeline_trace)

\* run_query has ended: it returned a result or an exception left it
pipeline_ended == pipeline_pc \in {"returned", "raised"}

\* C30: every run of the skills pipeline executes initialize and route once
\* and then respond alone when no skill was selected, or load_skill, extract,
\* execute and synthesize in that order when one was, and then ends: no node
\* runs twice, one of respond and synthesize sets the final response, and a
\* failed execution is followed by synthesize all the same
C30_PipelineTakesOneOfTwoPaths ==
    pipeline_ended =>
        nodes_run = IF truthy(pipeline_state.selected_skill_name)
                    THEN <<"INITIALIZE", "ROUTE", "LOAD_SKILL", "EXTRACT", "EXECUTE",
                           "SYNTHESIZE">>
                    ELSE <<"INITIALIZE", "ROUTE", "RESPOND">>

====
